---- MODULE Spec2Model ----
(***************************************************************************)
(* CodeJudge: submission intake (saga with compensation), the two Redis    *)
(* work queues, the judge worker and the plagiarism worker.                *)
(*                                                                         *)
(* Two intake implementations and two judge implementations live in the    *)
(* repository; cfg selects which pair a behaviour runs.                    *)
(*   intake "service"  : submissions-service-go/main.go                    *)
(*   intake "monolith" : monolith/handlers/submissions.go                  *)
(*   judge  "nossl"    : judge/main_nossl.cpp                              *)
(*   judge  "modern"   : judge-service/modern_main.cpp + judge/sandbox.cpp *)
(***************************************************************************)
EXTENDS Integers, Sequences, FiniteSets, TLC

(***************************************************************************)
(* Bounds of the model.                                                    *)
(***************************************************************************)
MaxSubs == 2      \* intake calls in one behaviour
MaxFaults == 1    \* store / broker / filesystem failures in one behaviour
MaxCases == 2     \* test cases of the problem that has test cases
MaxLen == 2       \* characters of a program output or expected output
MaxExtra == 5     \* hashes of the largest fingerprint beyond the number of LSH tables
MaxDup == 1       \* plagiarism_queue messages pushed a second time
MaxTime == 3      \* ticks of the clock read by the fingerprint cache
MaxSteps == 4     \* steps added to one distributed transaction
MaxHash == 4      \* hashes that the fingerprints of a scored pair are drawn from
MaxOps == 3       \* reads and writes the sandboxed child performs before it exits
MaxCand == 3     \* ids that can get a vote in one query
MaxVotes == 2    \* tables in which an id can co-hash with the query
MaxOver == 2     \* hashes by which a winnowed sequence exceeds one window

(***************************************************************************)
(* Program constants.                                                      *)
(***************************************************************************)
windowSize == 10       \* fingerprint.go
RetryAttempts == 5   \* StrictTransactionOptions().RetryAttempts
maxSize == 2         \* NewFingerprintCache(maxSize, ttl): entries, scaled from 10000
ttl == 1             \* NewFingerprintCache(maxSize, ttl): ticks, scaled from 30 minutes

Problems == {1, 2}
\* test_cases rows (ids) per problem: problem 1 has none, problem 2 has 1..MaxCases
TestCaseIds(p) == IF p = 1 THEN {} ELSE 1..MaxCases

PlagImpls == {"simple", "comprehensive"}
IntakeImpls == {"service", "monolith"}
JudgeImpls == {"nossl", "modern"}

VARIABLES
    cfg,        \* [intake, judge]: the implementations deployed
    subs,       \* submissions table: id -> [problem, verdict]
    nextId,     \* the SERIAL sequence of submissions.id
    judgeQ,     \* Redis list submission_queue, index 1 is the head (left)
    plagQ,      \* Redis list plagiarism_queue
    files,      \* ids whose <id>.cpp exists under SUBMISSION_STORAGE_PATH
    intake,     \* the intake call in progress (createSubmissionTransactional)
    judge,      \* the judge worker
    plag,       \* the plagiarism worker
    pushed,     \* history: [q -> [id -> number of LPUSHes that took effect]]
    calls,      \* intake calls started
    faults,     \* failures injected so far
    okIds,      \* history: ids returned by intake calls that reported success
    job,        \* one judged submission in full detail (SpecJudge)
    pimpl,      \* the plagiarism worker deployed (SpecPlag)
    fps,        \* id -> GenerateFingerprint(source_code) of the row (SpecPlag)
    lshIndex,   \* lshManager.problemIndexes (SpecPlag)
    reports,    \* plagiarism_reports table: a set of rows (SpecPlag)
    prev,       \* history of the plagiarism worker's iterations (SpecPlag)
    fc,         \* fingerprintCache and the goroutines that use it (SpecCache)
    dt,         \* one DistributedTransaction and its Execute call (SpecSaga)
    tx,         \* one ExecuteStrictTransaction call (SpecRetry)
    call,       \* one call of a function with its arguments and results
    sb          \* one sandboxed run: parent, child and their pipes (SpecPipes)

plagVars == <<pimpl, fps, lshIndex, reports, prev, fc>>

libVars == <<dt, tx, call, sb>>

progVars == <<cfg, subs, nextId, judgeQ, plagQ, files, intake, judge, plag,
              pushed, calls, faults, okIds, job>>

vars == <<cfg, subs, nextId, judgeQ, plagQ, files, intake, judge, plag,
          pushed, calls, faults, okIds, job, plagVars, libVars>>

Range(s) == {s[i] : i \in 1..Len(s)}
MinOf(S) == CHOOSE x \in S : \A y \in S : x <= y

MaxId == MaxSubs
Ids == 1..MaxId

----------------------------------------------------------------------------
(***************************************************************************)
(* Store and broker primitives.                                            *)
(***************************************************************************)

\* INSERT INTO submissions (problem_id, source_code) ... RETURNING id
\* verdict takes its column default 'Pending'
InsertRow(t, id, p) ==
    [i \in DOMAIN t \cup {id} |->
        IF i = id THEN [problem |-> p, verdict |-> "Pending"] ELSE t[i]]

\* DELETE FROM submissions WHERE id = $1
DeleteRow(t, id) == [i \in DOMAIN t \ {id} |-> t[i]]

\* UPDATE submissions SET verdict = $1 WHERE id = $2
UpdateVerdict(t, id, v) ==
    [i \in DOMAIN t |-> IF i = id THEN [t[i] EXCEPT !.verdict = v] ELSE t[i]]

\* LPUSH key value: insert at the head of the list
LPush(q, id) == <<id>> \o q

\* BLPOP key 0: remove and return the head of the list
BLPopValue(q) == q[1]
BLPopRest(q) == SubSeq(q, 2, Len(q))

\* BRPOP key 0: remove and return the tail of the list
BRPopValue(q) == q[Len(q)]
BRPopRest(q) == SubSeq(q, 1, Len(q) - 1)

----------------------------------------------------------------------------
(***************************************************************************)
(* Intake.                                                                 *)
(***************************************************************************)
IdleIntake ==
    [pc |-> "idle", id |-> 0, problem |-> 0, step |-> 0, executed |-> {},
     attempt |-> 0, compI |-> 0, filePath |-> FALSE, err |-> FALSE]

\* createSubmission: decode the request and start the intake call
Submit(p) ==
    /\ intake.pc = "idle"
    /\ calls < MaxSubs
    /\ calls' = calls + 1
    /\ intake' = [IdleIntake EXCEPT !.pc = IF cfg.intake = "service" THEN "exec" ELSE "m_insert",
                                    !.problem = p]
    /\ UNCHANGED <<plagVars, cfg, libVars, subs, nextId, judgeQ, plagQ, files, judge, plag, pushed, faults, okIds, job>>

\* DistributedTransaction.Execute, the branch taken when step i fails:
\* compensate(ctx, i) starts at step i-1; the error is returned after it.
StepFailed(c, i) ==
    IF i - 1 < 0
    THEN [c EXCEPT !.pc = "returned", !.err = TRUE, !.attempt = 0]
    ELSE [c EXCEPT !.pc = "comp", !.compI = i - 1, !.err = TRUE, !.attempt = 0]

\* DistributedTransaction.Execute, after step i succeeded: step.executed = true
StepDone(c, i) ==
    IF i = 2
    THEN [c EXCEPT !.pc = "returned", !.executed = @ \cup {i}, !.step = 3, !.attempt = 0]
    ELSE [c EXCEPT !.executed = @ \cup {i}, !.step = i + 1, !.attempt = 0]

\* DistributedTransaction.compensate, after the compensation of step i:
\* the loop goes on to i-1 whatever the outcome was
CompAdvance(c) ==
    IF c.compI - 1 < 0
    THEN [c EXCEPT !.pc = "returned", !.compI = 0, !.attempt = 0]
    ELSE [c EXCEPT !.compI = @ - 1, !.attempt = 0]

\* Step "database_insert", Execute: one attempt of ExecuteStrictTransaction
\* outcome: "ok" | "retryable" | "fatal"
DbInsertAttempt(outcome) ==
    /\ intake.pc = "exec" /\ intake.step = 0
    /\ outcome # "ok" => faults < MaxFaults
    /\ faults' = IF outcome = "ok" THEN faults ELSE faults + 1
    /\ IF outcome = "ok"
       THEN /\ nextId <= MaxId
            /\ subs' = InsertRow(subs, nextId, intake.problem)
            /\ nextId' = nextId + 1
            /\ intake' = StepDone([intake EXCEPT !.id = nextId], 0)
       ELSE /\ UNCHANGED <<subs, nextId>>
            /\ intake' = IF outcome = "retryable" /\ intake.attempt < RetryAttempts
                         THEN [intake EXCEPT !.attempt = @ + 1]
                         ELSE StepFailed(intake, 0)
    /\ UNCHANGED <<plagVars, cfg, libVars, judgeQ, plagQ, files, judge, plag, pushed, calls, okIds, job>>

\* Step "database_insert", Compensate: one attempt of the strict transaction
\* running DELETE FROM submissions WHERE id = s.ID.  A failed compensation is
\* logged and the loop continues.
DbInsertCompensate(outcome) ==
    /\ intake.pc = "comp" /\ intake.compI = 0
    /\ outcome # "ok" => faults < MaxFaults
    /\ faults' = IF outcome = "ok" THEN faults ELSE faults + 1
    /\ IF 0 \notin intake.executed
       THEN /\ intake' = CompAdvance(intake)
            /\ UNCHANGED subs
       ELSE IF outcome = "ok"
       THEN /\ subs' = DeleteRow(subs, intake.id)
            /\ intake' = CompAdvance(intake)
       ELSE /\ UNCHANGED subs
            /\ intake' = IF outcome = "retryable" /\ intake.attempt < RetryAttempts
                         THEN [intake EXCEPT !.attempt = @ + 1]
                         ELSE CompAdvance(intake)
    /\ UNCHANGED <<plagVars, cfg, libVars, nextId, judgeQ, plagQ, files, judge, plag, pushed, calls, okIds, job>>

\* Step "file_storage", Execute: MkdirAll, then WriteFile of <dir>/<id>.cpp
\* outcome: "ok" | "mkdir_fail" | "write_fail"
FileStore(outcome) ==
    /\ intake.pc = "exec" /\ intake.step = 1
    /\ outcome # "ok" => faults < MaxFaults
    /\ faults' = IF outcome = "ok" THEN faults ELSE faults + 1
    /\ files' = IF outcome = "ok" THEN files \cup {intake.id} ELSE files
    /\ intake' = IF outcome = "ok"
                 THEN StepDone([intake EXCEPT !.filePath = TRUE], 1)
                 ELSE StepFailed([intake EXCEPT !.filePath = (outcome = "write_fail")], 1)
    /\ UNCHANGED <<plagVars, cfg, libVars, subs, nextId, judgeQ, plagQ, judge, plag, pushed, calls, okIds, job>>

\* Step "file_storage", Compensate: os.Remove(filePath) when filePath is set
FileCompensate(removed) ==
    /\ intake.pc = "comp" /\ intake.compI = 1
    /\ ~removed => faults < MaxFaults
    /\ faults' = IF removed THEN faults ELSE faults + 1
    /\ files' = IF 1 \in intake.executed /\ intake.filePath /\ removed
                THEN files \ {intake.id} ELSE files
    /\ intake' = CompAdvance(intake)
    /\ UNCHANGED <<plagVars, cfg, libVars, subs, nextId, judgeQ, plagQ, judge, plag, pushed, calls, okIds, job>>

\* rdb.Pipeline(): LPush submission_queue, LPush plagiarism_queue, Exec.
\* The pipeline is one round trip of two independent commands: each takes
\* effect or not (a1, a2), and Exec reports an error unless both did.
PipelineJudgeQ(q, id, a1) == IF a1 THEN LPush(q, id) ELSE q
PipelinePlagQ(q, id, a2) == IF a2 THEN LPush(q, id) ELSE q
PipelineErr(a1, a2) == ~(a1 /\ a2)
PipelineCount(h, id, a1, a2) ==
    [h EXCEPT !["judge"][id] = @ + (IF a1 THEN 1 ELSE 0),
              !["plag"][id] = @ + (IF a2 THEN 1 ELSE 0)]

\* Step "queue_operations", Execute.  It is the last step, so on success
\* Execute returns nil; its own Compensate (LRem) is never reached because
\* compensate starts below the failed step.
QueuePush(a1, a2) ==
    /\ intake.pc = "exec" /\ intake.step = 2
    /\ PipelineErr(a1, a2) => faults < MaxFaults
    /\ faults' = IF PipelineErr(a1, a2) THEN faults + 1 ELSE faults
    /\ judgeQ' = PipelineJudgeQ(judgeQ, intake.id, a1)
    /\ plagQ' = PipelinePlagQ(plagQ, intake.id, a2)
    /\ pushed' = PipelineCount(pushed, intake.id, a1, a2)
    /\ intake' = IF PipelineErr(a1, a2) THEN StepFailed(intake, 2) ELSE StepDone(intake, 2)
    /\ UNCHANGED <<plagVars, cfg, libVars, subs, nextId, files, judge, plag, calls, okIds, job>>

\* monolith: Step 1, db.QueryRowContext(INSERT ... RETURNING id).Scan(&s.ID)
MonoInsert(ok) ==
    /\ intake.pc = "m_insert"
    /\ ~ok => faults < MaxFaults
    /\ faults' = IF ok THEN faults ELSE faults + 1
    /\ IF ok
       THEN /\ nextId <= MaxId
            /\ subs' = InsertRow(subs, nextId, intake.problem)
            /\ nextId' = nextId + 1
            /\ intake' = [intake EXCEPT !.id = nextId, !.pc = "m_file"]
       ELSE /\ UNCHANGED <<subs, nextId>>
            /\ intake' = [intake EXCEPT !.pc = "returned", !.err = TRUE]
    /\ UNCHANGED <<plagVars, cfg, libVars, judgeQ, plagQ, files, judge, plag, pushed, calls, okIds, job>>

\* monolith: Step 2, write to filesystem (best effort): failures are warnings
MonoFile(outcome) ==
    /\ intake.pc = "m_file"
    /\ outcome # "ok" => faults < MaxFaults
    /\ faults' = IF outcome = "ok" THEN faults ELSE faults + 1
    /\ files' = IF outcome = "ok" THEN files \cup {intake.id} ELSE files
    /\ intake' = [intake EXCEPT !.pc = "m_queue"]
    /\ UNCHANGED <<plagVars, cfg, libVars, subs, nextId, judgeQ, plagQ, judge, plag, pushed, calls, okIds, job>>

\* monolith: Step 3, push to queues (best effort): an Exec error is a warning
\* and the call returns nil
MonoQueue(a1, a2) ==
    /\ intake.pc = "m_queue"
    /\ PipelineErr(a1, a2) => faults < MaxFaults
    /\ faults' = IF PipelineErr(a1, a2) THEN faults + 1 ELSE faults
    /\ judgeQ' = PipelineJudgeQ(judgeQ, intake.id, a1)
    /\ plagQ' = PipelinePlagQ(plagQ, intake.id, a2)
    /\ pushed' = PipelineCount(pushed, intake.id, a1, a2)
    /\ intake' = [intake EXCEPT !.pc = "returned"]
    /\ UNCHANGED <<plagVars, cfg, libVars, subs, nextId, files, judge, plag, calls, okIds, job>>

\* createSubmission after createSubmissionTransactional returned:
\* 201 with the submission, or the error status
IntakeReturn ==
    /\ intake.pc = "returned"
    /\ okIds' = IF intake.err THEN okIds ELSE okIds \cup {intake.id}
    /\ intake' = IdleIntake
    /\ UNCHANGED <<plagVars, cfg, libVars, subs, nextId, judgeQ, plagQ, files, judge, plag, pushed, calls, faults, job>>

----------------------------------------------------------------------------
(***************************************************************************)
(* Judging one submission.                                                 *)
(*                                                                         *)
(* What the environment does during one job is a record env:               *)
(*   rowPresent : the submissions row of the popped id exists              *)
(*   problem    : its problem_id                                           *)
(*   fail       : the operation that fails, or "none"                      *)
(*   compile    : wait status of the compiler child                        *)
(*   order      : the test_cases rows in the order the store returns them  *)
(*   run        : test-case id -> what the child does on that case         *)
(*   updateOK   : the UPDATE of the verdict succeeds                       *)
(***************************************************************************)
FailPoints == {"none", "workdir", "fetch", "disk", "probid", "tc", "sandbox"}
CompileStatuses == {"exit0", "exit_nonzero", "signal", "fork_fail"}
RunKinds == {"exit0_match", "exit0_diff", "exit_nonzero", "sigxcpu", "signal", "setup_fail"}

\* the sequences that list every element of S once
Orders(S) == {o \in [1..Cardinality(S) -> S] : \A x \in S : \E k \in 1..Cardinality(S) : o[k] = x}

\* compile_code that tests WIFEXITED only
CompileCodeExitedOnly(st) == st \in {"exit0", "exit_nonzero"}

\* compile_code (main_nossl.cpp): true iff the child exited with status 0
CompileCodeNossl(st) == st = "exit0"

\* Strings are sequences of characters. "RUNTIME_ERROR" stands for the run of
\* characters that spells that word: an element that is not whitespace.
Chars == {"a", " ", "\n", "RUNTIME_ERROR"}
Whitespace == {" ", "\n", "\r", "\t"}
Strings == UNION {[1..n -> Chars] : n \in 0..MaxLen}

\* s.find_last_not_of(" \n\r\t"): the last position holding another
\* character, 0 for npos
FindLastNotOf(s) ==
    IF \A i \in 1..Len(s) : s[i] \in Whitespace THEN 0
    ELSE CHOOSE i \in 1..Len(s) :
            /\ s[i] \notin Whitespace
            /\ \A j \in (i + 1)..Len(s) : s[j] \in Whitespace

\* rtrim_copy (main_nossl.cpp)
rtrim_copy(s) == IF FindLastNotOf(s) = 0 THEN <<>> ELSE SubSeq(s, 1, FindLastNotOf(s))

\* s.erase(s.find_last_not_of(" \n\r\t") + 1) (modern_main.cpp): npos + 1
\* wraps to 0 and erases the whole string
EraseTrailing(s) == SubSeq(s, 1, FindLastNotOf(s))

\* the status of a child of SpecJudge's RunKinds, what it wrote to stdout and
\* the expected output of the test case
ExpectedOut == <<"a">>
KindStatus(kind) == IF kind \in {"exit0_match", "exit0_diff"} THEN "exit0" ELSE kind
KindOutput(kind) == IF kind = "exit0_match" THEN <<"a", "\n">> ELSE <<"a", "a">>

\* SecureSandbox::execute: the SandboxResult for a child status and stdout.
\* result = {} zero-initialises; exit_code is assigned only on pipe/fork
\* failure (-1) and on a normal exit; memory_exceeded is never assigned.
SandboxExecute(status, out) ==
    [exit_code |-> CASE status \in {"setup_fail", "fork_fail"} -> -1
                     [] status \in {"exit_nonzero"} -> 1
                     [] OTHER -> 0,
     timeout |-> status = "sigxcpu",
     memory_exceeded |-> FALSE,
     signal_killed |-> status \in {"sigxcpu", "signal"},
     output |-> IF status \in {"setup_fail", "fork_fail"} THEN <<>> ELSE out]

\* compile_submission (modern_main.cpp): result.exit_code == 0
CompileSubmissionModern(st) == SandboxExecute(st, <<>>).exit_code = 0

\* determine_verdict that tests memory_exceeded before timeout
DetermineVerdictMemoryFirst(result, expected) ==
    IF result.memory_exceeded THEN "Memory Limit Exceeded"
    ELSE IF result.timeout THEN "Time Limit Exceeded"
    ELSE IF result.signal_killed \/ result.exit_code # 0 THEN "Runtime Error"
    ELSE IF EraseTrailing(result.output) = EraseTrailing(expected)
         THEN "Accepted" ELSE "Wrong Answer"

\* determine_verdict (modern_main.cpp)
DetermineVerdict(result, expected) ==
    IF result.timeout THEN "Time Limit Exceeded"
    ELSE IF result.memory_exceeded THEN "Memory Limit Exceeded"
    ELSE IF result.signal_killed \/ result.exit_code # 0 THEN "Runtime Error"
    ELSE IF EraseTrailing(result.output) = EraseTrailing(expected)
         THEN "Accepted" ELSE "Wrong Answer"

\* the strings run_code returns in place of the output
TIME_LIMIT_EXCEEDED == <<"TIME_LIMIT_EXCEEDED">>
RUNTIME_ERROR == <<"RUNTIME_ERROR">>
JUDGE_ERROR == <<"JUDGE_ERROR">>

\* run_code (main_nossl.cpp): the string returned for a child status and
\* stdout; a normal exit with status 0 returns the captured stdout
RunCode(status, out) ==
    CASE status = "setup_fail" -> JUDGE_ERROR
      [] status = "sigxcpu" -> TIME_LIMIT_EXCEEDED
      [] status = "signal" -> RUNTIME_ERROR
      [] status = "exit0" -> out
      [] OTHER -> RUNTIME_ERROR

\* verdict_from_output (main_nossl.cpp)
VerdictFromOutput(run_out, expected) ==
    IF run_out = TIME_LIMIT_EXCEEDED THEN "Time Limit Exceeded"
    ELSE IF run_out = RUNTIME_ERROR \/ run_out = JUDGE_ERROR THEN "Runtime Error"
    ELSE IF rtrim_copy(run_out) = rtrim_copy(expected) THEN "Accepted" ELSE "Wrong Answer"

\* the verdict of one test-case run of a child with status and stdout
RunVerdict(impl, status, out, expected) ==
    IF impl = "nossl" THEN VerdictFromOutput(RunCode(status, out), expected)
    ELSE DetermineVerdict(SandboxExecute(status, out), expected)

\* the verdict of one test-case run
CaseVerdict(impl, kind) == RunVerdict(impl, KindStatus(kind), KindOutput(kind), ExpectedOut)

\* the test-case loop without the break / early return: every case is run and
\* the first verdict that is not Accepted is kept
RECURSIVE TestLoopNoBreak(_, _, _, _, _)
TestLoopNoBreak(impl, order, run, k, executed) ==
    IF k > Len(order)
    THEN [verdict |-> "Accepted", executed |-> executed]
    ELSE LET rest == TestLoopNoBreak(impl, order, run, k + 1, Append(executed, order[k]))
         IN IF CaseVerdict(impl, run[order[k]]) # "Accepted"
            THEN [verdict |-> CaseVerdict(impl, run[order[k]]), executed |-> rest.executed]
            ELSE rest

\* the test-case loop of process_submission / judge_submission: run the
\* cases in the order of the vector, stop at the first verdict that is not
\* Accepted.  Returns the verdict and the cases executed, in order.
RECURSIVE TestLoop(_, _, _, _, _)
TestLoop(impl, order, run, k, executed) ==
    IF k > Len(order)
    THEN [verdict |-> "Accepted", executed |-> executed]
    ELSE IF CaseVerdict(impl, run[order[k]]) # "Accepted"
         THEN [verdict |-> CaseVerdict(impl, run[order[k]]),
               executed |-> Append(executed, order[k])]
         ELSE TestLoop(impl, order, run, k + 1, Append(executed, order[k]))

\* the result of a job that ended before the test-case loop
Ended(env, stage, writes, v, compiled) ==
    [status |-> "ended", stage |-> stage, writes |-> writes, verdict |-> v,
     compiled |-> compiled, executed |-> <<>>,
     applied |-> (writes = 1 /\ env.updateOK /\ env.rowPresent), env |-> env]

\* the result of a job that went through the test-case loop
AfterLoop(env, r) ==
    [status |-> "ended", stage |-> "loop", writes |-> 1, verdict |-> r.verdict,
     compiled |-> TRUE, executed |-> r.executed,
     applied |-> (env.updateOK /\ env.rowPresent), env |-> env]

\* process_submission (main_nossl.cpp)
ProcessSubmissionNossl(env) ==
    IF env.fail = "workdir"
    THEN Ended(env, "workdir", 1, "Judge Error: Storage unavailable", FALSE)
    ELSE IF ~env.rowPresent \/ env.fail = "fetch"
    THEN Ended(env, "fetch", 1, "Judge Error: Source not found", FALSE)
    ELSE IF env.fail = "disk"
    THEN Ended(env, "disk", 1, "Judge Error: Write failure", FALSE)
    ELSE IF ~CompileCodeNossl(env.compile)
    THEN Ended(env, "compile", 1, "Compilation Error", FALSE)
    ELSE IF env.fail = "probid"
    THEN Ended(env, "probid", 1, "Judge Error: Problem not found", TRUE)
    ELSE IF env.fail = "tc" \/ Len(env.order) = 0
    THEN Ended(env, "tc", 1, "Judge Error: No test cases", TRUE)
    ELSE AfterLoop(env, TestLoop("nossl", env.order, env.run, 1, <<>>))

\* one iteration of process_submission_queue after the pop (modern_main.cpp):
\* fetch_submission, judge_submission, update_verdict, inside try/catch
ProcessSubmissionModern(env) ==
    IF ~env.rowPresent \/ env.fail = "fetch"
    THEN Ended(env, "fetch", 0, "none", FALSE)
    ELSE IF env.fail = "tc"
    THEN Ended(env, "tc", 0, "none", FALSE)
    ELSE IF env.fail = "disk"
    THEN Ended(env, "compile", 1, "Compilation Error", FALSE)
    ELSE IF env.fail = "sandbox"
    THEN Ended(env, "sandbox", 1, "Judge Error", FALSE)
    ELSE IF ~CompileSubmissionModern(env.compile)
    THEN Ended(env, "compile", 1, "Compilation Error", FALSE)
    ELSE AfterLoop(env, TestLoop("modern", env.order, env.run, 1, <<>>))

ProcessSubmission(impl, env) ==
    IF impl = "nossl" THEN ProcessSubmissionNossl(env) ELSE ProcessSubmissionModern(env)

\* the operations that exist in an implementation and can fail
FailPointsOf(impl) ==
    IF impl = "nossl" THEN {"none", "workdir", "fetch", "disk", "probid", "tc"}
    ELSE {"none", "fetch", "disk", "tc", "sandbox"}

\* what a child does when the compiler did not exit with status 0: there is
\* no executable, so exec fails (exit 127) or the run cannot be set up
RunKindsAfter(st) == IF st = "exit0" THEN RunKinds ELSE {"exit_nonzero", "setup_fail"}

\* the environments of one job on a submission of problem p whose compiler
\* child ends with status st
JobEnvs(impl, p, st) ==
    [rowPresent : BOOLEAN, problem : {p}, fail : FailPointsOf(impl),
     compile : {st}, order : Orders(TestCaseIds(p)),
     run : [TestCaseIds(p) -> RunKindsAfter(st)], updateOK : BOOLEAN]

\* SpecJudge: the deployed judge processes one popped id in one environment
JudgeOne(env) ==
    /\ job.status = "none"
    /\ job' = ProcessSubmission(cfg.judge, env)
    /\ UNCHANGED <<plagVars, cfg, libVars, subs, nextId, judgeQ, plagQ, files, intake, judge, plag,
                   pushed, calls, faults, okIds>>

\* the ways the child of one test-case run ends
RunStatuses == {"exit0", "exit_nonzero", "sigxcpu", "signal", "setup_fail"}

\* SpecClassify: the deployed judge classifies one test-case run of a child
\* that ended with status after writing out, against the expected output
ClassifyRun(status, out, expected) ==
    /\ job.status = "none"
    /\ job' = [status |-> "classified", child |-> status, out |-> out,
               expected |-> expected,
               verdict |-> RunVerdict(cfg.judge, status, out, expected)]
    /\ UNCHANGED <<plagVars, cfg, libVars, subs, nextId, judgeQ, plagQ, files, intake, judge, plag,
                   pushed, calls, faults, okIds>>

\* the values a SandboxResult can hold
SandboxResults ==
    [exit_code : {-1, 0, 1}, timeout : BOOLEAN, memory_exceeded : BOOLEAN,
     signal_killed : BOOLEAN, output : {<<>>, <<"a">>, <<"a", "\n">>}]

\* SpecClassify: determine_verdict applied to a SandboxResult
Determine(result, expected) ==
    /\ job.status = "none"
    /\ cfg.judge = "modern"
    /\ job' = [status |-> "determined", result |-> result, expected |-> expected,
               verdict |-> DetermineVerdict(result, expected)]
    /\ UNCHANGED <<plagVars, cfg, libVars, subs, nextId, judgeQ, plagQ, files, intake, judge, plag,
                   pushed, calls, faults, okIds>>

----------------------------------------------------------------------------
(***************************************************************************)
(* The judge worker and the plagiarism worker on the shared store/queues.  *)
(***************************************************************************)
\* a worker between two jobs; after a job that did not complete, cur and
\* last = "aborted" keep the id it had popped
IdleWorker == [pc |-> "idle", cur |-> 0, last |-> "none"]

\* programs submitted in Spec: the compiler's exit and the behaviour of the
\* child, the same on every test case
MainPrograms ==
    { [compile |-> "exit0", kind |-> "exit0_match"],
      [compile |-> "exit_nonzero", kind |-> "exit_nonzero"] }

\* in Spec every submission is for the problem that has test cases, and the
\* failures injected into a job are those of the store reads and of the UPDATE
SubmittedProblems == {2}
MainFailPoints == {"none", "fetch", "tc"}

\* the environments of the job of submission id in the current store
MainJobEnvs(impl, id) ==
    LET present == id \in DOMAIN subs
        p == IF present THEN subs[id].problem ELSE 1
    IN UNION {
         [rowPresent : {present}, problem : {p}, fail : MainFailPoints,
          compile : {prog.compile}, order : Orders(TestCaseIds(p)),
          run : {[t \in TestCaseIds(p) |-> prog.kind]}, updateOK : BOOLEAN]
         : prog \in MainPrograms }

\* the stage at which a job ends when env.fail strikes
FailStage(impl, f) == IF impl = "modern" /\ f = "disk" THEN "compile" ELSE f

\* failures that happened during the job
FaultsUsed(impl, env, r) ==
    (IF env.fail # "none" THEN 1 ELSE 0) + (IF ~env.updateOK THEN 1 ELSE 0)

\* an injected failure must be one the job ran into
FaultsReal(impl, env, r) ==
    /\ env.fail # "none" => r.stage = FailStage(impl, env.fail)
    /\ ~env.updateOK => r.writes = 1

\* main loop of the judge: BLPOP submission_queue 0 (main_nossl.cpp),
\* BRPOP submission_queue 0 (modern_main.cpp)
JudgePop ==
    /\ judge.pc = "idle"
    /\ Len(judgeQ) > 0
    /\ judge' = [IdleWorker EXCEPT !.pc = "processing",
                  !.cur = IF cfg.judge = "nossl" THEN BLPopValue(judgeQ) ELSE BRPopValue(judgeQ)]
    /\ judgeQ' = IF cfg.judge = "nossl" THEN BLPopRest(judgeQ) ELSE BRPopRest(judgeQ)
    /\ UNCHANGED <<plagVars, cfg, libVars, subs, nextId, plagQ, files, intake, plag, pushed, calls, faults, okIds, job>>

\* process_submission(id) / fetch + judge + update_verdict for the popped id
JudgeProcess(env) ==
    /\ judge.pc = "processing"
    /\ LET r == ProcessSubmission(cfg.judge, env)
       IN /\ FaultsReal(cfg.judge, env, r)
          /\ faults + FaultsUsed(cfg.judge, env, r) <= MaxFaults
          /\ faults' = faults + FaultsUsed(cfg.judge, env, r)
          /\ subs' = IF r.applied THEN UpdateVerdict(subs, judge.cur, r.verdict) ELSE subs
          /\ judge' = IF r.writes = 0 /\ env.rowPresent
                       THEN [judge EXCEPT !.pc = "idle", !.last = "aborted"]
                       ELSE IdleWorker
    /\ UNCHANGED <<plagVars, cfg, libVars, nextId, judgeQ, plagQ, files, intake, plag, pushed, calls, okIds, job>>

\* the judge process is cancelled or killed while it processes an id, and is
\* started again: the popped id lived only in the worker's memory
JudgeCrash ==
    /\ judge.pc = "processing"
    /\ judge' = [judge EXCEPT !.pc = "idle", !.last = "aborted"]
    /\ UNCHANGED <<plagVars, cfg, libVars, subs, nextId, judgeQ, plagQ, files, intake, plag, pushed, calls, faults, okIds, job>>

\* comprehensiveWorker: rdb.BLPop(ctx, 0, "plagiarism_queue")
PlagPop ==
    /\ plag.pc = "idle"
    /\ Len(plagQ) > 0
    /\ plag' = [IdleWorker EXCEPT !.pc = "processing", !.cur = BLPopValue(plagQ)]
    /\ plagQ' = BLPopRest(plagQ)
    /\ UNCHANGED <<plagVars, cfg, libVars, subs, nextId, judgeQ, files, intake, judge, pushed, calls, faults, okIds, job>>

\* comprehensiveWorker after the pop: getSubmissionWithFingerprint; when it
\* fails (row absent or store error) the error is logged and the loop
\* continues with the next pop; otherwise the submission is scored
PlagProcess(dbOK) ==
    /\ plag.pc = "processing"
    /\ ~dbOK => faults < MaxFaults
    /\ faults' = IF dbOK THEN faults ELSE faults + 1
    /\ plag' = IF ~dbOK THEN [plag EXCEPT !.pc = "idle", !.last = "aborted"] ELSE IdleWorker
    /\ UNCHANGED <<plagVars, cfg, libVars, subs, nextId, judgeQ, plagQ, files, intake, judge, pushed, calls, okIds, job>>

----------------------------------------------------------------------------
(***************************************************************************)
(* The plagiarism workers in detail (SpecPlag): the worker of              *)
(* plagiarism-service-go/main.go ("simple") and comprehensiveWorker with   *)
(* the LSH index ("comprehensive").                                        *)
(***************************************************************************)
NumTables == 20   \* NewLSHIndex(20, 10)
Tables == 0..(NumTables - 1)

\* The fingerprints of the submitted programs (all non-empty): nested sets of
\* hashes of sizes around the number of tables, and one set of NumTables
\* hashes that shares only its smallest hash with them.
Decoy == {1} \cup (101..(99 + NumTables))
Fingerprints ==
    {1..n : n \in {NumTables - 1, NumTables, NumTables + MaxExtra}} \cup {Decoy}

\* float64 values are kept as exact fractions <<numerator, denominator>> in
\* lowest terms
RECURSIVE GCD(_, _)
GCD(a, b) == IF b = 0 THEN a ELSE GCD(b, a % b)
Frac(n, d) == IF n = 0 THEN <<0, 1>> ELSE <<n \div GCD(n, d), d \div GCD(n, d)>>
AtLeast(q, n, d) == q[1] * d >= n * q[2]
Greater(q, r) == q[1] * r[2] > r[1] * q[2]

similarityThreshold == <<3, 4>>        \* 0.75 (comprehensive worker)
similarityThresholdSimple == <<4, 5>>  \* 0.80 (plagiarism-service-go/main.go)

\* calculateAllSimilarityMetrics (fingerprint.go)
calculateAllSimilarityMetrics(fpA, fpB) ==
    LET lenA == Cardinality(fpA)
        lenB == Cardinality(fpB)
        intersectionSize == Cardinality(fpA \cap fpB)
        jaccard == Frac(intersectionSize, lenA + lenB - intersectionSize)
        containmentA == Frac(intersectionSize, lenA)
        containmentB == Frac(intersectionSize, lenB)
        maxContainment == IF Greater(containmentB, containmentA)
                          THEN containmentB ELSE containmentA
    IN IF lenA = 0 /\ lenB = 0
       THEN [weighted |-> <<1, 1>>, jaccard |-> <<1, 1>>,
             containmentA |-> <<1, 1>>, containmentB |-> <<1, 1>>]
       ELSE IF lenA = 0 \/ lenB = 0
       THEN [weighted |-> <<0, 1>>, jaccard |-> <<0, 1>>,
             containmentA |-> <<0, 1>>, containmentB |-> <<0, 1>>]
       ELSE [weighted |-> Frac(2 * jaccard[1] * maxContainment[2]
                                 + 3 * maxContainment[1] * jaccard[2],
                               5 * jaccard[2] * maxContainment[2]),
             jaccard |-> jaccard,
             containmentA |-> containmentA, containmentB |-> containmentB]

\* CalculateJaccard (fingerprint.go)
CalculateJaccard(fpA, fpB) ==
    LET intersectionSize == Cardinality(fpA \cap fpB)
        unionSize == Cardinality(fpA) + Cardinality(fpB) - intersectionSize
    IN IF unionSize = 0 THEN <<1, 1>> ELSE Frac(intersectionSize, unionSize)

\* the fingerprint as a sorted slice (sort.Slice on the map's keys)
RECURSIVE SortSlice(_)
SortSlice(S) == IF S = {} THEN <<>> ELSE <<MinOf(S)>> \o SortSlice(S \ {MinOf(S)})

\* LSHIndex.AddSubmission: the band of table tableIdx, <<>> when the table
\* gets no entry (startIdx >= endIdx)
AddBand(fpSlice, tableIdx) ==
    LET startIdx == (tableIdx * Len(fpSlice)) \div NumTables
        endIdx == ((tableIdx + 1) * Len(fpSlice)) \div NumTables
    IN IF startIdx < endIdx THEN SubSeq(fpSlice, startIdx + 1, endIdx) ELSE <<>>

\* LSHIndex.FindSimilarSubmissions: the band looked up in table tableIdx,
\* <<>> when the table is not queried
QueryBand(fpSlice, tableIdx) ==
    LET bandSize == IF Len(fpSlice) \div NumTables = 0 THEN 1
                    ELSE Len(fpSlice) \div NumTables
        startIdx == tableIdx * bandSize
        endIdx == IF tableIdx = NumTables - 1 THEN Len(fpSlice) ELSE startIdx + bandSize
    IN IF startIdx < Len(fpSlice) /\ startIdx < endIdx
       THEN SubSeq(fpSlice, startIdx + 1, endIdx) ELSE <<>>

\* An LSHIndex is kept as the number of times each id was given to
\* AddSubmission; the id lists of hashTables[t] are read off it. hashBand and hashBandOptimized are
\* the same FNV-1a fold, taken to be injective on bands: a bucket is named by
\* its band.
NoEntries == [i \in Ids |-> 0]
NoIndexes == [p \in Problems |-> [exists |-> FALSE, entries |-> NoEntries]]
AddSubmission(index, submissionID) ==
    [index EXCEPT !.entries[submissionID] = @ + 1]

\* LSHIndex.FindSimilarSubmissions: the ids that got a vote in some table
\* (the index never holds more than limit = 200 ids here, so all are returned)
FindSimilarSubmissions(index, fingerprint) ==
    IF fingerprint = {} THEN {}
    ELSE UNION {
           {e \in {i \in Ids : index.entries[i] > 0} :
               \E f \in {SortSlice(fps[e])} : \E t \in Tables :
                  \E band \in {QueryBand(q, t)} :
                     band # <<>> /\ AddBand(f, t) = band}
           : q \in {SortSlice(fingerprint)} }

\* PersistentLSHManager.GetOrCreateIndex with loadExistingSubmissions: a new
\* index is filled with the rows of the problem; a failed query leaves it empty
GetOrCreateIndex(indexes, problemID, loadOK) ==
    IF indexes[problemID].exists THEN indexes
    ELSE [indexes EXCEPT ![problemID] =
            [exists |-> TRUE,
             entries |-> IF loadOK
                         THEN [i \in Ids |-> IF i \in DOMAIN subs /\ subs[i].problem = problemID
                                             THEN 1 ELSE 0]
                         ELSE NoEntries]]

\* FindSimilarSubmissionsForProblem that does not skip excludeID
FindSimilarNoExclude(index, excludeID, fingerprint, skipped) ==
    {id \in FindSimilarSubmissions(index, fingerprint) :
        id \in DOMAIN subs /\ id \notin skipped}

\* PersistentLSHManager.FindSimilarSubmissionsForProblem: the candidates
\* other than excludeID whose row could be fetched
FindSimilarSubmissionsForProblem(index, excludeID, fingerprint, skipped) ==
    {id \in FindSimilarSubmissions(index, fingerprint) :
        id # excludeID /\ id \in DOMAIN subs /\ id \notin skipped}

SamePair(r, row) ==
    r.submission_a = row.submission_a /\ r.submission_b = row.submission_b

\* an INSERT that ignores the UNIQUE(submission_a, submission_b) constraint
UpsertKeepBoth(t, row) == t \cup {row}

\* INSERT ... ON CONFLICT (submission_a, submission_b) DO UPDATE SET ...
Upsert(t, row) == {r \in t : ~SamePair(r, row)} \cup {row}

\* INSERT ... ON CONFLICT (submission_a, submission_b) DO NOTHING
InsertDoNothing(t, row) == IF \E r \in t : SamePair(r, row) THEN t ELSE t \cup {row}

RECURSIVE UpsertAll(_, _)
UpsertAll(t, rows) ==
    IF rows = {} THEN t
    ELSE LET row == CHOOSE r \in rows : TRUE
         IN UpsertAll(Upsert(t, row), rows \ {row})

RECURSIVE InsertAll(_, _)
InsertAll(t, rows) ==
    IF rows = {} THEN t
    ELSE LET row == CHOOSE r \in rows : TRUE
         IN InsertAll(InsertDoNothing(t, row), rows \ {row})

\* comprehensiveWorker: the row stored for newSub scored against otherSub
ComprehensiveRow(newID, otherID) ==
    LET m == calculateAllSimilarityMetrics(fps[newID], fps[otherID])
    IN [submission_a |-> IF newID > otherID THEN otherID ELSE newID,
        submission_b |-> IF newID > otherID THEN newID ELSE otherID,
        similarity |-> m.weighted, jaccard_similarity |-> m.jaccard,
        containment_a_in_b |-> m.containmentA, containment_b_in_a |-> m.containmentB]

\* worker (plagiarism-service-go/main.go): the row stored for a pair
SimpleRow(newID, otherID) ==
    [submission_a |-> IF newID > otherID THEN otherID ELSE newID,
     submission_b |-> IF newID > otherID THEN newID ELSE otherID,
     similarity |-> CalculateJaccard(fps[newID], fps[otherID])]

\* history of the worker: the id of the last iteration, the rows of
\* submissions and the ids scored in it, whether it ran without a failure,
\* the ids processed without a failure so far, messages pushed again, and
\* whether the last iteration processed the id of the one before it
NoIteration ==
    [id |-> 0, rows |-> {}, scored |-> {}, clean |-> FALSE, done |-> {}, dups |-> 0,
     again |-> FALSE]

\* an intake that succeeded, for a program with fingerprint f
PlagSubmit(p, f) ==
    /\ nextId <= MaxSubs
    /\ subs' = InsertRow(subs, nextId, p)
    /\ fps' = [i \in DOMAIN subs \cup {nextId} |-> IF i = nextId THEN f ELSE fps[i]]
    /\ nextId' = nextId + 1
    /\ judgeQ' = LPush(judgeQ, nextId)
    /\ plagQ' = LPush(plagQ, nextId)
    /\ UNCHANGED <<cfg, libVars, files, intake, judge, plag, pushed, calls, faults, okIds, job,
                   pimpl, lshIndex, reports, prev, fc>>

\* the message of the iteration that just ended without a failure is pushed
\* onto plagiarism_queue again
Redeliver(id) ==
    /\ id \in DOMAIN subs
    /\ id = prev.id
    /\ prev.clean
    /\ id \notin Range(plagQ)
    /\ plag.pc = "idle"
    /\ prev.dups < MaxDup
    /\ plagQ' = LPush(plagQ, id)
    /\ prev' = [prev EXCEPT !.dups = @ + 1]
    /\ UNCHANGED <<cfg, libVars, subs, nextId, judgeQ, files, intake, judge, plag, pushed, calls,
                   faults, okIds, job, pimpl, fps, lshIndex, reports, fc>>

\* the subsets of S of at most n elements
UpTo(S, n) == {T \in SUBSET S : Cardinality(T) <= n}

\* one iteration of comprehensiveWorker after the pop. getOK: getSubmission
\* succeeds; loadOK: the query of loadExistingSubmissions succeeds; skipped:
\* candidates whose row fetch fails; failed: reports whose INSERT fails
ComprehensiveWorker(getOK, loadOK) ==
    /\ plag.pc = "processing"
    /\ pimpl = "comprehensive"
    /\ LET id == plag.cur
           found == getOK /\ id \in DOMAIN subs
           p == IF found THEN subs[id].problem ELSE 1
           indexes == GetOrCreateIndex(lshIndex, p, loadOK)
           index == AddSubmission(indexes[p], id)
           n0 == (IF getOK THEN 0 ELSE 1) + (IF loadOK THEN 0 ELSE 1)
       IN /\ faults + n0 <= MaxFaults
          /\ IF ~found
             THEN /\ loadOK
                  /\ faults' = faults + n0
                  /\ plag' = [plag EXCEPT !.pc = "idle", !.last = "aborted"]
                  /\ prev' = [prev EXCEPT !.id = id, !.rows = DOMAIN subs, !.again = (id = prev.id),
                                          !.scored = {}, !.clean = FALSE]
                  /\ UNCHANGED <<lshIndex, reports>>
             ELSE /\ ~loadOK => ~lshIndex[p].exists
                  /\ \E all \in {FindSimilarSubmissionsForProblem(index, id, fps[id], {})} :
                     \E skipped \in UpTo(all, MaxFaults - faults - n0) :
                        LET candidateSubs == all \ skipped
                            hits == {o \in candidateSubs :
                                       AtLeast(calculateAllSimilarityMetrics(
                                                   fps[id], fps[o]).weighted,
                                               similarityThreshold[1],
                                               similarityThreshold[2])}
                        IN \E failed \in UpTo(hits, MaxFaults - faults - n0
                                                      - Cardinality(skipped)) :
                           LET n == n0 + Cardinality(skipped) + Cardinality(failed)
                           IN /\ faults' = faults + n
                              /\ reports' = UpsertAll(reports,
                                    {ComprehensiveRow(id, o) : o \in hits \ failed})
                              /\ prev' = [prev EXCEPT
                                    !.id = id, !.rows = DOMAIN subs,
                                    !.again = (id = prev.id),
                                    !.scored = candidateSubs, !.clean = (n = 0),
                                    !.done = IF n = 0 THEN @ \cup {id} ELSE @]
                  /\ lshIndex' = [indexes EXCEPT ![p] = index]
                  /\ plag' = IdleWorker
    /\ UNCHANGED <<cfg, libVars, subs, nextId, judgeQ, plagQ, files, intake, judge, pushed, calls,
                   okIds, job, pimpl, fps, fc>>

\* one iteration of worker (plagiarism-service-go/main.go) after the pop.
\* getOK: getSubmission succeeds; listOK: getSubmissionsForProblem succeeds;
\* failed: reports whose INSERT fails (the error is dropped)
SimpleWorker(getOK, listOK) ==
    /\ plag.pc = "processing"
    /\ pimpl = "simple"
    /\ LET id == plag.cur
           found == getOK /\ id \in DOMAIN subs /\ listOK
           otherSubs == IF found
                        THEN {o \in DOMAIN subs : subs[o].problem = subs[id].problem /\ o # id}
                        ELSE {}
           hits == {o \in otherSubs :
                      AtLeast(CalculateJaccard(fps[id], fps[o]),
                              similarityThresholdSimple[1], similarityThresholdSimple[2])}
           n0 == (IF getOK THEN 0 ELSE 1) + (IF listOK THEN 0 ELSE 1)
       IN /\ faults + n0 <= MaxFaults
          /\ ~getOK => listOK
          /\ \E failed \in UpTo(hits, MaxFaults - faults - n0) :
               LET n == n0 + Cardinality(failed)
               IN /\ faults' = faults + n
                  /\ reports' = InsertAll(reports, {SimpleRow(id, o) : o \in hits \ failed})
                  /\ prev' = [prev EXCEPT !.id = id, !.rows = DOMAIN subs, !.again = (id = prev.id),
                                          !.scored = otherSubs, !.clean = (n = 0),
                                          !.done = IF n = 0 /\ found THEN @ \cup {id} ELSE @]
          /\ plag' = IF found THEN IdleWorker
                     ELSE [plag EXCEPT !.pc = "idle", !.last = "aborted"]
    /\ UNCHANGED <<cfg, libVars, subs, nextId, judgeQ, plagQ, files, intake, judge, pushed, calls,
                   okIds, job, pimpl, fps, lshIndex, fc>>

----------------------------------------------------------------------------
(***************************************************************************)
(* FingerprintCache (SpecCache): the worker goroutine calls Get and Set,   *)
(* the cleanupExpired goroutine sweeps; each critical section is one step. *)
(***************************************************************************)
Keys == 1..(maxSize + 2)

\* NewFingerprintCache: both maps empty. now is time.Now() in ticks; pc and
\* key are the position of the worker goroutine inside Get / after a miss.
NewFingerprintCache ==
    [cache |-> {}, usage |-> <<>>, now |-> 0, pc |-> "idle", key |-> 0]

\* delete(fc.usage, id)
UsageDelete(usage, id) == [k \in DOMAIN usage \ {id} |-> usage[k]]
\* fc.usage[id] = time.Now()
UsagePut(usage, id, t) == [k \in DOMAIN usage \cup {id} |-> IF k = id THEN t ELSE usage[k]]

\* time passes
CacheTick ==
    /\ fc.now < MaxTime
    /\ fc' = [fc EXCEPT !.now = @ + 1]
    /\ UNCHANGED <<cfg, libVars, subs, nextId, judgeQ, plagQ, files, intake, judge, plag, pushed,
                   calls, faults, okIds, job, pimpl, fps, lshIndex, reports, prev>>

\* FingerprintCache.Get, the section under the read lock: fp, exists
GetRead(k) ==
    /\ fc.pc = "idle"
    /\ fc' = [fc EXCEPT !.pc = IF k \in fc.cache THEN "touch" ELSE "missed", !.key = k]
    /\ UNCHANGED <<cfg, libVars, subs, nextId, judgeQ, plagQ, files, intake, judge, plag, pushed,
                   calls, faults, okIds, job, pimpl, fps, lshIndex, reports, prev>>

\* FingerprintCache.Get, the section under the write lock (exists was true):
\* fc.usage[submissionID] = time.Now()
GetTouch ==
    /\ fc.pc = "touch"
    /\ fc' = [fc EXCEPT !.usage = UsagePut(@, fc.key, fc.now), !.pc = "idle", !.key = 0]
    /\ UNCHANGED <<cfg, libVars, subs, nextId, judgeQ, plagQ, files, intake, judge, plag, pushed,
                   calls, faults, okIds, job, pimpl, fps, lshIndex, reports, prev>>

\* evictLRU: the entries the loop over fc.usage can end on (map order decides
\* between equal times)
Oldest(usage) == {k \in DOMAIN usage : \A j \in DOMAIN usage : usage[k] <= usage[j]}

\* FingerprintCache.Set after a miss, with evictLRU when the cache is full;
\* oldestID is 0 when fc.usage is empty
CacheSet(oldestID) ==
    /\ fc.pc = "missed"
    /\ IF Cardinality(fc.cache) >= maxSize
       THEN /\ IF DOMAIN fc.usage = {} THEN oldestID = 0 ELSE oldestID \in Oldest(fc.usage)
            /\ fc' = [fc EXCEPT
                        !.cache = (@ \ {oldestID}) \cup {fc.key},
                        !.usage = UsagePut(UsageDelete(@, oldestID), fc.key, fc.now),
                        !.pc = "idle", !.key = 0]
       ELSE /\ oldestID = 0
            /\ fc' = [fc EXCEPT !.cache = @ \cup {fc.key},
                                !.usage = UsagePut(@, fc.key, fc.now),
                                !.pc = "idle", !.key = 0]
    /\ UNCHANGED <<cfg, libVars, subs, nextId, judgeQ, plagQ, files, intake, judge, plag, pushed,
                   calls, faults, okIds, job, pimpl, fps, lshIndex, reports, prev>>

\* getSubmissionWithFingerprint after a miss when getSubmission fails: Set is
\* not called
CacheNoSet ==
    /\ fc.pc = "missed"
    /\ fc' = [fc EXCEPT !.pc = "idle", !.key = 0]
    /\ UNCHANGED <<cfg, libVars, subs, nextId, judgeQ, plagQ, files, intake, judge, plag, pushed,
                   calls, faults, okIds, job, pimpl, fps, lshIndex, reports, prev>>

\* cleanupExpired, one tick of the ticker under the write lock
CleanupExpired ==
    /\ \E id \in DOMAIN fc.usage : fc.now - fc.usage[id] > ttl
    /\ LET expired == {id \in DOMAIN fc.usage : fc.now - fc.usage[id] > ttl}
       IN fc' = [fc EXCEPT !.cache = @ \ expired,
                           !.usage = [k \in DOMAIN @ \ expired |-> @[k]]]
    /\ UNCHANGED <<cfg, libVars, subs, nextId, judgeQ, plagQ, files, intake, judge, plag, pushed,
                   calls, faults, okIds, job, pimpl, fps, lshIndex, reports, prev>>

----------------------------------------------------------------------------
(***************************************************************************)
(* TransactionManager.ExecuteTransaction under StrictTransactionOptions.   *)
(*                                                                         *)
(* An error is the list of the parts of its message, outermost first; nil  *)
(* is the empty list.  tx.runs counts the calls of the transaction         *)
(* function, tx.onces those of executeTransactionOnce, tx.waits the        *)
(* backoff delays waited for, tx.rows the times the effect of the          *)
(* function (the INSERT of the intake) was committed in the store.         *)
(***************************************************************************)
NilErr == <<>>
TxErrors ==
    {<<"pq: 40001">>, <<"pq: 40P01">>, <<"pq: 23505">>, <<"pq: 42601">>,
     <<"connection refused">>, <<"read: connection reset by peer">>}
TxStages == {"begin", "fn", "commit"}

\* tx.Commit() that fails because the connection broke while the reply was
\* awaited: the server may have committed before, or not
CommitInDoubt(stage, e) == stage = "commit" /\ e = <<"read: connection reset by peer">>

\* <<stage, e, applied>>: the stage that fails with error e ("none": no
\* failure) and whether the transaction is committed in the store
TxOutcomes ==
    {<<"none", NilErr, TRUE>>}
       \cup {<<o[1], o[2], FALSE>> : o \in TxStages \X TxErrors}
       \cup {<<o[1], o[2], TRUE>> : o \in {x \in TxStages \X TxErrors : CommitInDoubt(x[1], x[2])}}

retryableErrors ==
    {"40001", "40P01", "53300", "57014",
     "connection refused", "connection reset", "connection timed out"}

\* contains(str, substr), on the messages of TxErrors
contains(str, substr) ==
    \/ str = substr
    \/ <<str, substr>> \in {<<"pq: 40001", "40001">>, <<"pq: 40P01", "40P01">>,
                             <<"read: connection reset by peer", "connection reset">>}

\* isRetryableError: the message contains one of the retryable codes
isRetryableError(err) ==
    \E k \in 1..Len(err) : \E r \in retryableErrors : contains(err[k], r)

NewCall == [pc |-> "idle", attempt |-> 0, lastErr |-> NilErr, ret |-> NilErr,
            runs |-> 0, onces |-> 0, committed |-> FALSE, waits |-> 0, rows |-> 0]

\* executeTransactionOnce when stage fails with error e (stage "none": commit
\* succeeded): the error it returns
executeTransactionOnce(stage, e) ==
    CASE stage = "none"   -> NilErr
      [] stage = "begin"  -> <<"failed to begin transaction">> \o e
      [] stage = "fn"     -> <<"transaction function failed">> \o e
      [] stage = "commit" -> <<"failed to commit transaction">> \o e

\* ExecuteStrictTransaction is called
ExecuteStrictTransaction ==
    /\ tx.pc = "idle"
    /\ tx' = [NewCall EXCEPT !.pc = "loop"]
    /\ UNCHANGED <<progVars, plagVars, dt, call, sb>>

\* ExecuteTransaction that retries after every error
ExecuteTransactionAttemptRetryAny(stage, e, applied) ==
    /\ tx.pc = "loop"
    /\ LET err == executeTransactionOnce(stage, e)
           t == [tx EXCEPT !.onces = @ + 1,
                           !.runs = IF stage = "begin" THEN @ ELSE @ + 1,
                           !.committed = (stage = "none"),
                           !.rows = IF applied THEN @ + 1 ELSE @]
       IN tx' = IF err = NilErr
                THEN [t EXCEPT !.pc = "returned", !.ret = NilErr]
                ELSE IF tx.attempt < RetryAttempts
                THEN [t EXCEPT !.lastErr = err, !.attempt = @ + 1, !.waits = @ + 1]
                ELSE [t EXCEPT !.pc = "returned", !.lastErr = err, !.ret = err,
                               !.attempt = @ + 1]
    /\ UNCHANGED <<progVars, plagVars, dt, call, sb>>

\* ExecuteTransaction, one iteration of
\* for attempt := 0; attempt <= opts.RetryAttempts; attempt++
\* The context of the intake's calls is context.Background(), which is never
\* done, so the backoff always ends with the next attempt.
ExecuteTransactionAttempt(stage, e, applied) ==
    /\ tx.pc = "loop"
    /\ LET err == executeTransactionOnce(stage, e)
           t == [tx EXCEPT !.onces = @ + 1,
                           !.runs = IF stage = "begin" THEN @ ELSE @ + 1,
                           !.committed = (stage = "none"),
                           !.rows = IF applied THEN @ + 1 ELSE @]
       IN tx' = IF err = NilErr
                THEN [t EXCEPT !.pc = "returned", !.ret = NilErr]
                ELSE IF ~isRetryableError(err)
                THEN [t EXCEPT !.pc = "returned", !.lastErr = err, !.ret = err]
                ELSE IF tx.attempt < RetryAttempts
                THEN [t EXCEPT !.lastErr = err, !.attempt = @ + 1, !.waits = @ + 1]
                ELSE [t EXCEPT !.pc = "returned", !.lastErr = err, !.ret = err,
                               !.attempt = @ + 1]
    /\ UNCHANGED <<progVars, plagVars, dt, call, sb>>

----------------------------------------------------------------------------
(***************************************************************************)
(* Single calls of library functions: the similarity metrics of            *)
(* fingerprint.go and the handlers of common/health.                       *)
(***************************************************************************)
Hashes == 1..MaxHash

\* CalculateContainmentSimilarity: <<containmentAinB, containmentBinA>>
CalculateContainmentSmallerFirst(fpA, fpB) ==
    LET lenA == Cardinality(fpA)
        lenB == Cardinality(fpB)
        intersectionSize == Cardinality(fpA \cap fpB)
    IN IF lenA = 0 /\ lenB = 0 THEN << <<1, 1>>, <<1, 1>> >>
       ELSE IF lenA = 0 \/ lenB = 0 THEN << <<0, 1>>, <<0, 1>> >>
       ELSE IF lenA <= lenB
       THEN <<Frac(intersectionSize, lenA), Frac(intersectionSize, lenB)>>
       ELSE <<Frac(intersectionSize, lenB), Frac(intersectionSize, lenA)>>

CalculateContainmentSimilarity(fpA, fpB) ==
    LET lenA == Cardinality(fpA)
        lenB == Cardinality(fpB)
        smaller == IF lenA <= lenB THEN fpA ELSE fpB
        larger == IF lenA <= lenB THEN fpB ELSE fpA
        intersectionSize == Cardinality({hash \in smaller : hash \in larger})
    IN IF lenA = 0 /\ lenB = 0 THEN << <<1, 1>>, <<1, 1>> >>
       ELSE IF lenA = 0 \/ lenB = 0 THEN << <<0, 1>>, <<0, 1>> >>
       ELSE <<Frac(intersectionSize, lenA), Frac(intersectionSize, lenB)>>

\* CalculateWeightedSimilarity: 0.4*jaccard + 0.6*maxContainment
CalculateWeightedSimilarity(fpA, fpB) ==
    LET lenA == Cardinality(fpA)
        lenB == Cardinality(fpB)
        smaller == IF lenB < lenA THEN fpB ELSE fpA
        larger == IF lenB < lenA THEN fpA ELSE fpB
        intersectionSize == Cardinality({hash \in smaller : hash \in larger})
        jaccard == Frac(intersectionSize, lenA + lenB - intersectionSize)
        containmentA == Frac(intersectionSize, lenA)
        containmentB == Frac(intersectionSize, lenB)
        maxContainment == IF Greater(containmentB, containmentA)
                          THEN containmentB ELSE containmentA
    IN IF lenA = 0 /\ lenB = 0 THEN <<1, 1>>
       ELSE IF lenA = 0 \/ lenB = 0 THEN <<0, 1>>
       ELSE Frac(2 * jaccard[1] * maxContainment[2] + 3 * maxContainment[1] * jaccard[2],
                 5 * jaccard[2] * maxContainment[2])

\* the four metric functions applied to one ordered pair of fingerprints
Metrics(fpA, fpB) ==
    [all |-> calculateAllSimilarityMetrics(fpA, fpB),
     jaccard |-> CalculateJaccard(fpA, fpB),
     weighted |-> CalculateWeightedSimilarity(fpA, fpB),
     containment |-> CalculateContainmentSimilarity(fpA, fpB)]

\* a pair of fingerprints is scored in both orders
Measure ==
    /\ call.op = "none"
    /\ \E fpA, fpB \in SUBSET Hashes :
           call' = [op |-> "metrics", fpA |-> fpA, fpB |-> fpB,
                    ab |-> Metrics(fpA, fpB), ba |-> Metrics(fpB, fpA)]
    /\ UNCHANGED <<progVars, plagVars, dt, tx, sb>>

\* a fingerprint of n hashes is banded for table tableIdx as AddSubmission
\* does and as FindSimilarSubmissions does
BandsOf ==
    /\ call.op = "none"
    /\ \E n \in 1..(NumTables + MaxExtra), tableIdx \in Tables :
           call' = [op |-> "bands", n |-> n, tableIdx |-> tableIdx,
                    add |-> AddBand(SortSlice(1..n), tableIdx),
                    find |-> QueryBand(SortSlice(1..n), tableIdx)]
    /\ UNCHANGED <<progVars, plagVars, dt, tx, sb>>

\* LSHIndex.FindSimilarSubmissions, candidate selection: the results the call
\* can return for the vote counts in candidates (ids without a vote are not
\* in the map).  Ranging over a Go map visits the keys in an unspecified
\* order and sort.Slice is not stable, so there are several.
CandIds == 1..MaxCand
NonIncreasing(votes, o) == \A k \in 1..(Len(o) - 1) : votes[o[k]] >= votes[o[k + 1]]
CandidateSelection(votes, limit) ==
    LET candidates == {id \in CandIds : votes[id] > 0}
    IN IF candidates = {} THEN {<<>>}
       ELSE IF Cardinality(candidates) <= limit THEN Orders(candidates)
       ELSE {SubSeq(sortedCandidates, 1, limit) :
                sortedCandidates \in {o \in Orders(candidates) : NonIncreasing(votes, o)}}

\* the candidates of one query are selected
FindTop ==
    /\ call.op = "none"
    /\ \E votes \in [CandIds -> 0..MaxVotes], limit \in 1..MaxCand :
          \E result \in CandidateSelection(votes, limit) :
             call' = [op |-> "top", votes |-> votes, limit |-> limit, result |-> result]
    /\ UNCHANGED <<progVars, plagVars, dt, tx, sb>>

\* SecureSandbox::execute, the child branch between fork and exec.  The ids
\* of the child are "parent" (those the judge runs with) or "restricted"
\* (those of config_.user).  The results of setgid and setuid are not looked
\* at; a call that fails leaves the id as it was.
ParentCredentials == [uid |-> "parent", gid |-> "parent"]
SetGid(cred, ok) == IF ok THEN [cred EXCEPT !.gid = "restricted"] ELSE cred
SetUid(cred, ok) == IF ok THEN [cred EXCEPT !.uid = "restricted"] ELSE cred
DropCredentials(userSet, pwFound, setgidOK, setuidOK) ==
    IF userSet /\ pwFound
    THEN SetUid(SetGid(ParentCredentials, setgidOK), setuidOK)
    ELSE ParentCredentials

\* the child of one sandboxed run: unshare, limits, credential drop, execl
SandboxChild ==
    /\ call.op = "none"
    /\ \E userSet, unshareOK, pwFound, setgidOK, setuidOK, execOK \in BOOLEAN :
          call' = [op |-> "child", user |-> userSet,
                   cred |-> IF unshareOK
                            THEN DropCredentials(userSet, pwFound, setgidOK, setuidOK)
                            ELSE ParentCredentials,
                   status |-> IF unshareOK /\ execOK THEN "exec" ELSE "exit127"]
    /\ UNCHANGED <<progVars, plagVars, dt, tx, sb>>

\* winnowOptimized: the inner loop that finds the minimum of a window,
\* for j := 1; j < len(window); j++
RECURSIVE WindowMin(_, _, _)
WindowMin(window, j, minHash) ==
    IF j > Len(window) THEN minHash
    ELSE WindowMin(window, j + 1, IF window[j] < minHash THEN window[j] ELSE minHash)

\* winnowOptimized whose loop over the windows stops one window early
winnowAllButLastWindow(hashes) ==
    IF Len(hashes) = 0 THEN {}
    ELSE IF Len(hashes) < windowSize THEN {hashes[k] : k \in 1..Len(hashes)}
    ELSE {WindowMin(SubSeq(hashes, i + 1, i + windowSize), 2, hashes[i + 1]) :
             i \in 0..(Len(hashes) - windowSize - 1)}

\* winnowOptimized(hashes): the keys of the returned map; indices are 0-based
\* in the code and 1-based in the sequences here
winnowOptimized(hashes) ==
    IF Len(hashes) = 0 THEN {}
    ELSE IF Len(hashes) < windowSize THEN {hashes[k] : k \in 1..Len(hashes)}
    ELSE {WindowMin(SubSeq(hashes, i + 1, i + windowSize), 2, hashes[i + 1]) :
             i \in 0..(Len(hashes) - windowSize)}

\* the hash sequences that are winnowed: every sequence of a low and a high
\* hash up to MaxOver hashes longer than one window
HashValues == {1, 2}
HashSeqs == UNION {[1..n -> HashValues] : n \in 0..(windowSize + MaxOver)}

\* one hash sequence is winnowed
Winnow ==
    /\ call.op = "none"
    /\ \E hashes \in HashSeqs :
          call' = [op |-> "winnow", hashes |-> hashes, result |-> winnowOptimized(hashes)]
    /\ UNCHANGED <<progVars, plagVars, dt, tx, sb>>

\* the readiness checks the services inject: ping the store, then the queue
\* server; the first error is returned
PingErrors == {<<"connection refused">>, <<"context deadline exceeded">>}
ReadyCheck(dbErr, redisErr) == IF dbErr # NilErr THEN dbErr ELSE redisErr

\* HealthHandler: w.WriteHeader(http.StatusOK)
HealthHandler == [code |-> 200, body |-> ""]

\* ReadyHandler(check)
ReadyHandlerAlwaysOK(err) == [code |-> 200, body |-> ""]

ReadyHandler(err) ==
    IF err # NilErr THEN [code |-> 503, body |-> "not ready"]
    ELSE [code |-> 200, body |-> ""]

\* GET /health
ServeHealth ==
    /\ call.op = "none"
    /\ call' = [op |-> "health", resp |-> HealthHandler]
    /\ UNCHANGED <<progVars, plagVars, dt, tx, sb>>

\* GET /ready
ServeReady ==
    /\ call.op = "none"
    /\ \E dbErr, redisErr \in {NilErr} \cup PingErrors :
           call' = [op |-> "ready", err |-> ReadyCheck(dbErr, redisErr),
                    resp |-> ReadyHandler(ReadyCheck(dbErr, redisErr))]
    /\ UNCHANGED <<progVars, plagVars, dt, tx, sb>>

----------------------------------------------------------------------------
(***************************************************************************)
(* One sandboxed run: the parent branch of SecureSandbox::execute (modern  *)
(* judge) or run_code (nossl judge), the child, and the pipes between      *)
(* them.  Data is counted in units of one pipe buffer, PipeCap units fill  *)
(* a pipe.  The child is a finite program of blocking operations:          *)
(*   "r" read one unit from stdin (returns at once at end of file),        *)
(*   "w" write one unit to stdout, "e" write one unit to stderr;           *)
(* it exits, closing its descriptors, after the last one.                  *)
(***************************************************************************)
PipeCap == 1
ChildOps == {"r", "w", "e"}
ChildPrograms == UNION {[1..n -> ChildOps] : n \in 0..MaxOps}
InputSizes == 0..(PipeCap + 1)

NewSandbox ==
    [pc |-> "idle", child |-> "none", prog |-> <<>>, toWrite |-> 0,
     inBuf |-> 0, outBuf |-> 0, errBuf |-> 0]

\* fork() returned in the parent: the child starts, the parent is about to
\* write(input_pipe[1], input)
SandboxFork ==
    /\ sb.pc = "idle"
    /\ \E input \in InputSizes, prog \in ChildPrograms :
           sb' = [NewSandbox EXCEPT !.pc = "write", !.child = "running",
                                    !.prog = prog, !.toWrite = input]
    /\ UNCHANGED <<progVars, plagVars, dt, tx, call>>

\* write(input_pipe[1], ...): a blocking write that moves data as the pipe
\* has room and returns when all of it is written; with no reader left it
\* raises SIGPIPE, which neither judge handles.  Then close(input_pipe[1]).
ParentWrite ==
    /\ sb.pc = "write"
    /\ IF sb.toWrite = 0
       THEN sb' = [sb EXCEPT !.pc = "read_out"]
       ELSE IF sb.child = "exited"
       THEN sb' = [sb EXCEPT !.pc = "sigpipe"]
       ELSE /\ sb.inBuf < PipeCap
            /\ sb' = [sb EXCEPT !.inBuf = @ + 1, !.toWrite = @ - 1]
    /\ UNCHANGED <<progVars, plagVars, dt, tx, call>>

\* while (read(output_pipe[0], ...) > 0): data is taken when there is some,
\* end of file comes when the child has exited; then the stderr loop in the
\* sandbox, which run_code does not have
ParentReadOut ==
    /\ sb.pc = "read_out"
    /\ IF sb.outBuf > 0
       THEN sb' = [sb EXCEPT !.outBuf = 0]
       ELSE /\ sb.child = "exited"
            /\ sb' = [sb EXCEPT !.pc = IF cfg.judge = "modern" THEN "read_err" ELSE "wait"]
    /\ UNCHANGED <<progVars, plagVars, dt, tx, call>>

\* while (read(error_pipe[0], ...) > 0)
ParentReadErr ==
    /\ sb.pc = "read_err"
    /\ IF sb.errBuf > 0
       THEN sb' = [sb EXCEPT !.errBuf = 0]
       ELSE /\ sb.child = "exited"
            /\ sb' = [sb EXCEPT !.pc = "wait"]
    /\ UNCHANGED <<progVars, plagVars, dt, tx, call>>

\* waitpid(pid, &status, 0), then the status is interpreted and execute returns
ParentWait ==
    /\ sb.pc = "wait"
    /\ sb.child = "exited"
    /\ sb' = [sb EXCEPT !.pc = "returned"]
    /\ UNCHANGED <<progVars, plagVars, dt, tx, call>>

\* the child's next operation can complete
ChildCanStep ==
    /\ sb.child = "running"
    /\ sb.prog # <<>> =>
         CASE Head(sb.prog) = "r" -> sb.inBuf > 0 \/ sb.pc # "write"
           [] Head(sb.prog) = "w" -> sb.outBuf < PipeCap
           [] Head(sb.prog) = "e" -> cfg.judge = "nossl" \/ sb.errBuf < PipeCap

\* the child performs its next operation, or exits after the last one
ChildStep ==
    /\ ChildCanStep
    /\ IF sb.prog = <<>>
       THEN sb' = [sb EXCEPT !.child = "exited"]
       ELSE sb' = [sb EXCEPT
                !.prog = Tail(@),
                !.inBuf = IF Head(sb.prog) = "r" /\ @ > 0 THEN @ - 1 ELSE @,
                !.outBuf = IF Head(sb.prog) = "w" THEN @ + 1 ELSE @,
                !.errBuf = IF Head(sb.prog) = "e" /\ cfg.judge = "modern" THEN @ + 1 ELSE @]
    /\ UNCHANGED <<progVars, plagVars, dt, tx, call>>

\* the parent is inside a system call that cannot complete
ParentBlocked ==
    \/ sb.pc = "write" /\ sb.toWrite > 0 /\ sb.child = "running" /\ sb.inBuf = PipeCap
    \/ sb.pc = "read_out" /\ sb.outBuf = 0 /\ sb.child = "running"
    \/ sb.pc = "read_err" /\ sb.errBuf = 0 /\ sb.child = "running"
    \/ sb.pc = "wait" /\ sb.child = "running"

ChildBlocked == sb.child = "running" /\ ~ChildCanStep

----------------------------------------------------------------------------
(***************************************************************************)
(* The saga runner: DistributedTransaction of common/dbutil.               *)
(*                                                                         *)
(* dt.steps is the slice of steps, indexed from 0 as in the source; a      *)
(* step's Execute and Compensate are calls into the caller's code whose    *)
(* outcome is "nil" or an error.  dt.log is the history of those calls.    *)
(***************************************************************************)
Errors == {"e1", "e2"}
Outcomes == {"nil"} \cup Errors

NumSteps(d) == Cardinality(DOMAIN d.steps)

NewDistributedTransaction ==
    [pc |-> "building", steps |-> <<>>, compensated |-> FALSE,
     i |-> 0, j |-> 0, failed |-> -1, cause |-> "nil", ret |-> "pending", log |-> <<>>]

\* fmt.Errorf("distributed transaction step '%s' failed: %w", step.Name, err)
\* and errors.Unwrap of such a value
Errorf(name, err) == <<"distributed transaction step failed", name, err>>
Unwrap(e) == IF e = "nil" THEN "nil" ELSE e[3]

\* dt.steps = append(dt.steps, step); every step the program adds declares
\* both Execute and Compensate
AddStep ==
    /\ dt.pc = "building"
    /\ NumSteps(dt) < MaxSteps
    /\ dt' = [dt EXCEPT !.steps = [k \in 0..NumSteps(dt) |->
                                       IF k < NumSteps(dt) THEN @[k]
                                       ELSE [executed |-> FALSE]]]
    /\ UNCHANGED <<progVars, plagVars, tx, call, sb>>

\* Execute is entered: the loop starts at step 0, and with no steps it
\* returns nil at once
Execute ==
    /\ dt.pc = "building"
    /\ dt' = IF NumSteps(dt) = 0
             THEN [dt EXCEPT !.pc = "returned", !.ret = "nil"]
             ELSE [dt EXCEPT !.pc = "exec", !.i = 0]
    /\ UNCHANGED <<progVars, plagVars, tx, call, sb>>

\* Execute, the return after compensate: the error of the failed step, wrapped
ExecuteReturnLastError(d) ==
    [d EXCEPT !.pc = "returned", !.ret = Errorf(d.failed, d.log[Len(d.log)][3])]

ExecuteReturn(d) ==
    [d EXCEPT !.pc = "returned", !.ret = Errorf(d.failed, d.cause)]

\* compensate, the loop from d.j down to 0: steps that did not execute are
\* skipped; it stops at the next step whose Compensate is to be called, and
\* after step 0 compensate returns nil and Execute returns
RECURSIVE CompensateLoop(_)
CompensateLoop(d) ==
    IF d.j < 0 THEN ExecuteReturn(d)
    ELSE IF ~d.steps[d.j].executed THEN CompensateLoop([d EXCEPT !.j = @ - 1])
    ELSE [d EXCEPT !.pc = "comp"]

\* compensate(ctx, failedStepIndex)
compensate(d, failedStepIndex) ==
    IF d.compensated THEN ExecuteReturn(d)
    ELSE CompensateLoop([d EXCEPT !.compensated = TRUE, !.j = failedStepIndex - 1])

\* Execute, after step.Execute returned nil: step.executed = true
StepNotMarked(d, i) == d

StepExecuted(d, i) == [d EXCEPT !.steps[i].executed = TRUE]

\* Execute, one iteration of the loop: step i's Execute is called
ExecuteStep(out) ==
    /\ dt.pc = "exec"
    /\ LET d == [dt EXCEPT !.log = Append(@, <<"execute", dt.i, out>>)]
       IN dt' = IF out # "nil"
                THEN compensate([d EXCEPT !.failed = dt.i, !.cause = out], dt.i)
                ELSE IF dt.i + 1 = NumSteps(dt)
                THEN [StepExecuted(d, dt.i) EXCEPT !.pc = "returned", !.ret = "nil", !.i = @ + 1]
                ELSE [StepExecuted(d, dt.i) EXCEPT !.i = @ + 1]
    /\ UNCHANGED <<progVars, plagVars, tx, call, sb>>

\* compensate, one iteration that calls step j's Compensate: an error is
\* logged and the loop continues
CompensateStep(out) ==
    /\ dt.pc = "comp"
    /\ dt' = CompensateLoop([dt EXCEPT !.log = Append(@, <<"compensate", dt.j, out>>),
                                       !.j = @ - 1])
    /\ UNCHANGED <<progVars, plagVars, tx, call, sb>>

Init ==
    /\ cfg \in [intake : IntakeImpls, judge : JudgeImpls]
    /\ subs = [i \in {} |-> [problem |-> 0, verdict |-> "Pending"]]
    /\ nextId = 1
    /\ judgeQ = <<>>
    /\ plagQ = <<>>
    /\ files = {}
    /\ intake = IdleIntake
    /\ judge = IdleWorker
    /\ plag = IdleWorker
    /\ pushed = [q \in {"judge", "plag"} |-> [i \in Ids |-> 0]]
    /\ calls = 0
    /\ faults = 0
    /\ okIds = {}
    /\ job = [status |-> "none"]
    /\ pimpl = "comprehensive"
    /\ fps = <<>>
    /\ lshIndex = NoIndexes
    /\ reports = {}
    /\ prev = NoIteration
    /\ fc = NewFingerprintCache
    /\ dt = NewDistributedTransaction
    /\ tx = NewCall
    /\ call = [op |-> "none"]
    /\ sb = NewSandbox

\* the judge worker handles the id it popped, in one of the job's environments
JudgeStep ==
    /\ judge.pc = "processing"
    /\ \E env \in MainJobEnvs(cfg.judge, judge.cur) : JudgeProcess(env)

NextNoCrash ==
    \/ \E p \in SubmittedProblems : Submit(p)
    \/ \E o \in {"ok", "retryable", "fatal"} : DbInsertAttempt(o)
    \/ \E o \in {"ok", "retryable", "fatal"} : DbInsertCompensate(o)
    \/ \E o \in {"ok", "mkdir_fail", "write_fail"} : FileStore(o)
    \/ \E r \in BOOLEAN : FileCompensate(r)
    \/ \E a1, a2 \in BOOLEAN : QueuePush(a1, a2)
    \/ \E ok \in BOOLEAN : MonoInsert(ok)
    \/ \E o \in {"ok", "mkdir_fail", "write_fail"} : MonoFile(o)
    \/ \E a1, a2 \in BOOLEAN : MonoQueue(a1, a2)
    \/ IntakeReturn
    \/ JudgePop
    \/ JudgeStep
    \/ PlagPop
    \/ \E ok \in BOOLEAN : PlagProcess(ok)

Next == NextNoCrash \/ JudgeCrash

Spec == Init /\ [][Next]_vars

NextJudge ==
    /\ job.status = "none"
    /\ \E p \in Problems, st \in CompileStatuses :
          \E env \in JobEnvs(cfg.judge, p, st) : JudgeOne(env)

\* one job of either judge, in every environment
InitJudge == Init /\ cfg.intake = "service"

SpecJudge == InitJudge /\ [][NextJudge]_vars

NextClassify ==
    /\ job.status = "none"
    /\ \/ \E status \in RunStatuses, out \in Strings, expected \in Strings :
             ClassifyRun(status, out, expected)
       \/ \E result \in SandboxResults, expected \in {<<"a">>} :
             Determine(result, expected)

\* one test-case run classified by either judge
SpecClassify == InitJudge /\ [][NextClassify]_vars

\* submissions of one intake run through one of the plagiarism workers
InitPlag ==
    /\ cfg = [intake |-> "service", judge |-> "nossl"]
    /\ pimpl \in PlagImpls
    /\ subs = [i \in {} |-> [problem |-> 0, verdict |-> "Pending"]]
    /\ nextId = 1
    /\ judgeQ = <<>>
    /\ plagQ = <<>>
    /\ files = {}
    /\ intake = IdleIntake
    /\ judge = IdleWorker
    /\ plag = IdleWorker
    /\ pushed = [q \in {"judge", "plag"} |-> [i \in Ids |-> 0]]
    /\ calls = 0
    /\ faults = 0
    /\ okIds = {}
    /\ job = [status |-> "none"]
    /\ fps = <<>>
    /\ lshIndex = NoIndexes
    /\ reports = {}
    /\ prev = NoIteration
    /\ fc = NewFingerprintCache
    /\ dt = NewDistributedTransaction
    /\ tx = NewCall
    /\ call = [op |-> "none"]
    /\ sb = NewSandbox

PlagWork ==
    /\ plag.pc = "processing"
    /\ \/ \E getOK, loadOK \in BOOLEAN : ComprehensiveWorker(getOK, loadOK)
       \/ \E getOK, listOK \in BOOLEAN : SimpleWorker(getOK, listOK)

NextPlag ==
    \/ \E p \in SubmittedProblems, f \in Fingerprints : PlagSubmit(p, f)
    \/ \E id \in Ids : Redeliver(id)
    \/ PlagPop
    \/ PlagWork

SpecPlag == InitPlag /\ [][NextPlag]_vars

NextCache ==
    \/ CacheTick
    \/ \E k \in Keys : GetRead(k)
    \/ GetTouch
    \/ \E oldestID \in Keys \cup {0} : CacheSet(oldestID)
    \/ CacheNoSet
    \/ CleanupExpired

\* the fingerprint cache used by the worker goroutine and swept by
\* cleanupExpired
InitCache == InitJudge /\ cfg.judge = "nossl"

SpecCache == InitCache /\ [][NextCache]_vars

NextSaga ==
    \/ AddStep
    \/ Execute
    \/ \E out \in Outcomes : ExecuteStep(out)
    \/ \E out \in Outcomes : CompensateStep(out)

SpecSaga == InitCache /\ [][NextSaga]_vars

NextRetry ==
    \/ ExecuteStrictTransaction
    \/ \E o \in TxOutcomes : ExecuteTransactionAttempt(o[1], o[2], o[3])

SpecRetry == InitCache /\ [][NextRetry]_vars

NextCalls ==
    \/ Measure
    \/ BandsOf
    \/ ServeHealth
    \/ ServeReady
    \/ FindTop
    \/ SandboxChild

SpecCalls == InitCache /\ [][NextCalls]_vars

NextWinnow == Winnow

SpecWinnow == InitCache /\ [][NextWinnow]_vars

NextPipes ==
    \/ SandboxFork
    \/ ParentWrite
    \/ ParentReadOut
    \/ ParentReadErr
    \/ ParentWait
    \/ ChildStep

SpecPipes == InitJudge /\ [][NextPipes]_vars

\* The intake of submissions-service-go next to comprehensiveWorker: every
\* request carries the same program, whose fingerprint has NumTables hashes
SameProgram == [i \in Ids |-> 1..NumTables]

InitRace ==
    /\ cfg = [intake |-> "service", judge |-> "nossl"]
    /\ pimpl = "comprehensive"
    /\ subs = [i \in {} |-> [problem |-> 0, verdict |-> "Pending"]]
    /\ nextId = 1
    /\ judgeQ = <<>>
    /\ plagQ = <<>>
    /\ files = {}
    /\ intake = IdleIntake
    /\ judge = IdleWorker
    /\ plag = IdleWorker
    /\ pushed = [q \in {"judge", "plag"} |-> [i \in Ids |-> 0]]
    /\ calls = 0
    /\ faults = 0
    /\ okIds = {}
    /\ job = [status |-> "none"]
    /\ fps = SameProgram
    /\ lshIndex = NoIndexes
    /\ reports = {}
    /\ prev = NoIteration
    /\ fc = NewFingerprintCache
    /\ dt = NewDistributedTransaction
    /\ tx = NewCall
    /\ call = [op |-> "none"]
    /\ sb = NewSandbox

RaceWork ==
    /\ plag.pc = "processing"
    /\ \E getOK, loadOK \in BOOLEAN : ComprehensiveWorker(getOK, loadOK)

NextRace ==
    \/ \E p \in SubmittedProblems : Submit(p)
    \/ \E o \in {"ok", "retryable", "fatal"} : DbInsertAttempt(o)
    \/ \E o \in {"ok", "retryable", "fatal"} : DbInsertCompensate(o)
    \/ \E o \in {"ok", "mkdir_fail", "write_fail"} : FileStore(o)
    \/ \E r \in BOOLEAN : FileCompensate(r)
    \/ \E a1, a2 \in BOOLEAN : QueuePush(a1, a2)
    \/ IntakeReturn
    \/ PlagPop
    \/ RaceWork

SpecRace == InitRace /\ [][NextRace]_vars

\* no worker is cancelled and the judge worker keeps taking steps; the fault
\* budget makes the store and the broker available from some point on
FairSpec ==
    /\ Init /\ [][NextNoCrash]_vars
    /\ WF_vars(JudgePop)
    /\ WF_vars(JudgeStep)

----------------------------------------------------------------------------
(***************************************************************************)
(* Properties.                                                             *)
(***************************************************************************)

\* C1: when an intake call has returned an error, the submissions table has
\* no row with the id assigned during the call and neither queue holds it.
C1_FailedIntakeLeavesNothing ==
    (intake.pc = "returned" /\ intake.err) =>
        /\ intake.id \notin DOMAIN subs
        /\ intake.id \notin Range(judgeQ)
        /\ intake.id \notin Range(plagQ)

\* C2: when an intake call has returned success, its id is a row of
\* submissions and was pushed exactly once onto each of the two queues.
C2_SuccessMeansRowAndBothPushes ==
    (intake.pc = "returned" /\ ~intake.err) =>
        /\ intake.id \in DOMAIN subs
        /\ pushed["judge"][intake.id] = 1
        /\ pushed["plag"][intake.id] = 1

\* C3: when the processing of a popped id has ended, on any path, exactly one
\* verdict write was issued for it and the value written is not Pending.
C3_ExactlyOneVerdictWrite ==
    job.status = "ended" => job.writes = 1 /\ job.verdict \notin {"Pending", "none"}

\* C4: every submission whose intake returned success eventually has a
\* verdict other than Pending.
C4_PendingNeverLeaks ==
    \A id \in Ids :
        (id \in okIds) ~> (id \in DOMAIN subs /\ subs[id].verdict # "Pending")

\* C5: an id that a worker popped and whose processing did not complete
\* (worker cancelled, or a store error ended the iteration) is on the queue
\* again, available to be popped.
C5_PoppedIdNotLost ==
    /\ (judge.pc = "idle" /\ judge.last = "aborted") => judge.cur \in Range(judgeQ)
    /\ (plag.pc = "idle" /\ plag.last = "aborted") => plag.cur \in Range(plagQ)

\* C6: both queues are FIFO: a pop takes the entry that was pushed first.
\* Entries are pushed at the head, so the oldest entry is the last of the list.
C6_QueuesAreFIFO ==
    [][ /\ (judge.pc = "idle" /\ judge'.pc = "processing") => judge'.cur = judgeQ[Len(judgeQ)]
        /\ (plag.pc = "idle" /\ plag'.pc = "processing") => plag'.cur = plagQ[Len(plagQ)] ]_vars

\* the test cases on which the program does not get Accepted
FailingIds(impl, run) == {t \in DOMAIN run : CaseVerdict(impl, run[t]) # "Accepted"}

\* C7: the verdict of a judged submission is that of the failing test case
\* with the smallest id (Accepted when none fails), whatever the order in
\* which the store returned the rows.
C7_VerdictOfSmallestFailingId ==
    (job.status = "ended" /\ job.stage = "loop") =>
        job.verdict = IF FailingIds(cfg.judge, job.env.run) = {} THEN "Accepted"
                      ELSE CaseVerdict(cfg.judge, job.env.run[MinOf(FailingIds(cfg.judge, job.env.run))])

\* C8: the cases executed are a prefix of the fetched list that stops at the
\* first case whose verdict is not Accepted, that verdict is the one written,
\* and Accepted is written only when every case was executed and Accepted.
C8_ShortCircuit ==
    job.status = "ended" =>
        LET ex == job.executed
            ord == job.env.order
            n == Len(ex)
            V(t) == CaseVerdict(cfg.judge, job.env.run[t])
        IN /\ n <= Len(ord)
           /\ \A k \in 1..n : ex[k] = ord[k]
           /\ \A k \in 1..(n - 1) : V(ex[k]) = "Accepted"
           /\ (n > 0 /\ V(ex[n]) # "Accepted") => job.verdict = V(ex[n])
           /\ job.verdict = "Accepted" => (n = Len(ord) /\ \A k \in 1..n : V(ex[k]) = "Accepted")

\* a job that stopped at a failing case with cases left to run
C8_Witness ==
    /\ job.status = "ended" /\ job.stage = "loop"
    /\ job.verdict # "Accepted"
    /\ Len(job.executed) < Len(job.env.order)

\* C9: a submission that was compiled and whose problem has no test cases
\* gets the verdict "Judge Error: No test cases", never Accepted.
C9_NoTestCasesIsJudgeError ==
    (job.status = "ended" /\ job.compiled /\ job.env.fail = "none"
        /\ TestCaseIds(job.env.problem) = {}) =>
        job.verdict = "Judge Error: No test cases"

\* the job got as far as running the compiler
ReachedCompile(impl, env) ==
    /\ env.rowPresent
    /\ env.fail \notin (IF impl = "nossl" THEN {"workdir", "fetch", "disk"}
                                          ELSE {"fetch", "tc", "disk", "sandbox"})

\* C10: when the compile step fails (it returned false; in particular when
\* the compiler exited non-zero) the verdict written is Compilation Error and
\* no test case is executed.
C10_CompileFailure ==
    (job.status = "ended"
        /\ (job.stage = "compile"
             \/ (ReachedCompile(cfg.judge, job.env) /\ job.env.compile = "exit_nonzero"))) =>
        /\ job.writes = 1
        /\ job.verdict = "Compilation Error"
        /\ job.executed = <<>>

\* the compiler exited non-zero on a submission whose problem has test cases
C10_Witness ==
    /\ job.status = "ended" /\ job.stage = "compile"
    /\ job.env.compile = "exit_nonzero"
    /\ TestCaseIds(job.env.problem) # {}

\* C11: determine_verdict has the precedence timeout, then memory exceeded,
\* then signal or non-zero exit, then the output comparison; and a child
\* killed by SIGXCPU is classified Time Limit Exceeded by either judge.
C11_VerdictPrecedence ==
    /\ job.status = "determined" =>
         LET r == job.result
         IN /\ r.timeout => job.verdict = "Time Limit Exceeded"
            /\ (~r.timeout /\ r.memory_exceeded) => job.verdict = "Memory Limit Exceeded"
            /\ (~r.timeout /\ ~r.memory_exceeded /\ (r.signal_killed \/ r.exit_code # 0))
                  => job.verdict = "Runtime Error"
            /\ (~r.timeout /\ ~r.memory_exceeded /\ ~r.signal_killed /\ r.exit_code = 0)
                  => job.verdict \in {"Accepted", "Wrong Answer"}
    /\ (job.status = "classified" /\ job.child = "sigxcpu")
          => job.verdict = "Time Limit Exceeded"

\* a result that is timed out, over memory and signal-killed at once
C11_Witness ==
    /\ job.status = "determined"
    /\ job.result.timeout /\ job.result.memory_exceeded /\ job.result.signal_killed
    /\ job.verdict = "Time Limit Exceeded"

\* s without its trailing run of spaces, tabs, carriage returns and newlines
RECURSIVE TrailingRemoved(_)
TrailingRemoved(s) ==
    IF s = <<>> \/ s[Len(s)] \notin Whitespace THEN s
    ELSE TrailingRemoved(SubSeq(s, 1, Len(s) - 1))

\* C12: for a run that exited normally with status 0 the verdict is Accepted
\* iff stdout and the expected output are equal after removing the trailing
\* whitespace of each, and Wrong Answer otherwise.
C12_TrailingWhitespaceOnly ==
    (job.status = "classified" /\ job.child = "exit0") =>
        (job.verdict = "Accepted"
            <=> TrailingRemoved(job.out) = TrailingRemoved(job.expected))

\* the report row of the pair a < b, if any
ReportsOf(a, b) == {r \in reports : r.submission_a = a /\ r.submission_b = b}

\* C13: two submissions to the same problem with identical non-empty
\* fingerprints, both processed by the plagiarism worker, have a report row
\* (min id, max id) with similarity >= 0.75, whatever the fingerprint size.
C13_IdenticalFingerprintsReported ==
    \A a, b \in DOMAIN subs :
        (/\ a < b
         /\ subs[a].problem = subs[b].problem
         /\ fps[a] = fps[b] /\ fps[a] # {}
         /\ {a, b} \subseteq prev.done)
        => \E r \in ReportsOf(a, b) : AtLeast(r.similarity, 3, 4)

\* C14: every row of plagiarism_reports has submission_a < submission_b.
C14_PairIsOrdered == \A r \in reports : r.submission_a < r.submission_b

\* a report exists while the index holds an id more than once
C14_Witness ==
    /\ pimpl = "comprehensive"
    /\ reports # {}
    /\ \E p \in Problems, i \in Ids : lshIndex[p].entries[i] >= 2

\* W = 0.4 * J + 0.6 * max(C_A, C_B) >= 0.75 for fingerprints A and B that are
\* not both empty: with i common hashes, u hashes in the union and m the
\* smaller size, 0.4 * i / u + 0.6 * i / m >= 0.75
BlendedAtLeastTau(A, B) ==
    LET i == Cardinality(A \cap B)
        u == Cardinality(A \cup B)
        m == IF Cardinality(A) < Cardinality(B) THEN Cardinality(A) ELSE Cardinality(B)
    IN IF u = 0 THEN TRUE ELSE m > 0 /\ 8 * i * m + 12 * i * u >= 15 * u * m

\* C15: no row exists for a pair whose W is below 0.75, and after an
\* iteration that ran without a failure every pair it scored with W >= 0.75
\* has its row.
C15_RowIffAtLeastThreshold ==
    /\ \A r \in reports : BlendedAtLeastTau(fps[r.submission_a], fps[r.submission_b])
    /\ prev.clean =>
         \A o \in prev.scored :
             BlendedAtLeastTau(fps[prev.id], fps[o]) =>
                 \/ ReportsOf(prev.id, o) # {}
                 \/ ReportsOf(o, prev.id) # {}

C17_CacheBounded == Cardinality(fc.cache) <= maxSize

----------------------------------------------------------------------------
(***************************************************************************)
(* The saga runner's history: positions of dt.log.                         *)
(***************************************************************************)
LogPos == 1..Len(dt.log)
Executes == {k \in LogPos : dt.log[k][1] = "execute"}
Compensates == {k \in LogPos : dt.log[k][1] = "compensate"}
FailedExecutes == {k \in Executes : dt.log[k][3] # "nil"}
ExecutedSteps == {dt.log[k][2] : k \in Executes \ FailedExecutes}

\* C18: when step i is the first step whose Execute fails, the calls that
\* follow are the Compensate of steps i-1, i-2, ..., 0, each once and in that
\* order, all of them made by the time Execute returns; no Execute is called
\* after the failure, and Compensate is called only after a failure and only
\* on steps whose Execute had returned nil.
C18_CompensatesInReverseOrder ==
    /\ \A k \in FailedExecutes :
         LET i == dt.log[k][2]
         IN /\ \A m \in LogPos : m > k =>
                  /\ dt.log[m][1] = "compensate"
                  /\ dt.log[m][2] = i - (m - k)
                  /\ dt.log[m][2] >= 0
            /\ dt.pc = "returned" => Len(dt.log) - k = i
            /\ \A m \in 1..(k - 1) : dt.log[m] = <<"execute", m - 1, "nil">>
    /\ \A m \in Compensates :
         /\ \E k \in FailedExecutes : k < m
         /\ dt.log[m][2] \in ExecutedSteps
         /\ \A n \in Compensates : dt.log[n][2] = dt.log[m][2] => n = m

\* Execute returned after its third step failed and the two steps before it
\* were compensated
C18_Witness ==
    /\ dt.pc = "returned"
    /\ dt.failed = 2
    /\ Cardinality(Compensates) = 2

\* C19: when Execute returns after a step failed, the error it returns wraps
\* the error that step's Execute returned, whatever the compensations
\* returned; and after a Compensate that failed on step s > 0, the Compensate
\* of step s-1 is still called before Execute returns.
C19_OriginalErrorReturned ==
    dt.pc = "returned" =>
        /\ FailedExecutes = {} => dt.ret = "nil"
        /\ \A k \in FailedExecutes :
             /\ dt.ret # "nil"
             /\ Unwrap(dt.ret) = dt.log[k][3]
             /\ dt.ret[2] = dt.log[k][2]
        /\ \A m \in Compensates :
             dt.log[m][3] # "nil" /\ dt.log[m][2] > 0 =>
                 \E n \in Compensates : n > m /\ dt.log[n][2] = dt.log[m][2] - 1

\* Execute returned e1 of its failed third step although the compensation of
\* the second step failed with e2 and was followed by that of the first step
C19_Witness ==
    /\ dt.pc = "returned"
    /\ dt.failed = 2 /\ dt.cause = "e1"
    /\ Unwrap(dt.ret) = "e1"
    /\ \E m \in Compensates : dt.log[m] = <<"compensate", 1, "e2">>
    /\ \E m \in Compensates : dt.log[m][2] = 0

\* the intake call in progress inserted its row and then failed to create the
\* storage directory or to write <id>.cpp
FileStorageFailed ==
    /\ intake.id # 0
    /\ IF cfg.intake = "service"
       THEN intake.err /\ intake.step = 1
       ELSE intake.pc \in {"m_queue", "returned"} /\ intake.id \notin files

\* C20: an intake call whose only failure is that of creating the storage
\* directory or of writing the source file returns success, with its row
\* still in submissions and its id pushed onto both queues.
C20_FileStorageIsBestEffort ==
    (intake.pc = "returned" /\ FileStorageFailed /\ faults = 1) =>
        /\ ~intake.err
        /\ intake.id \in DOMAIN subs
        /\ pushed["judge"][intake.id] = 1
        /\ pushed["plag"][intake.id] = 1

\* C21: one call of ExecuteStrictTransaction runs the transaction function
\* at most 5 times in total, and when every attempt failed with a retryable
\* error it returns the error of the last attempt.
C21_AtMostFiveRuns ==
    /\ tx.runs <= 5
    /\ (tx.pc = "returned" /\ ~tx.committed) => tx.ret = tx.lastErr

\* C22: the metrics are symmetric under swapping the arguments: the Jaccard
\* and weighted scores of (A, B) and (B, A) are equal, and the containment of
\* the first in the second returned for (A, B) is the containment of the
\* second in the first returned for (B, A); empty fingerprints included.
C22_MetricsAreSymmetric ==
    call.op = "metrics" =>
        /\ call.ab.jaccard = call.ba.jaccard
        /\ call.ab.weighted = call.ba.weighted
        /\ call.ab.all.jaccard = call.ba.all.jaccard
        /\ call.ab.all.weighted = call.ba.all.weighted
        /\ call.ab.all.containmentA = call.ba.all.containmentB
        /\ call.ab.all.containmentB = call.ba.all.containmentA
        /\ call.ab.containment[1] = call.ba.containment[2]
        /\ call.ab.containment[2] = call.ba.containment[1]

\* two overlapping fingerprints of different sizes were scored, and the two
\* containments differ
C22_Witness ==
    /\ call.op = "metrics"
    /\ Cardinality(call.fpA) < Cardinality(call.fpB)
    /\ call.fpA \cap call.fpB # {}
    /\ call.ab.containment[1] # call.ab.containment[2]
    /\ call.ab.all.containmentA # call.ab.all.containmentB

\* C23: the readiness handler answers 200 exactly when the injected check
\* returns nil and 503 when it returns an error; the liveness handler always
\* answers 200.
C23_ReadyIffCheckPasses ==
    /\ call.op = "ready" =>
         /\ call.resp.code = 200 <=> call.err = NilErr
         /\ call.err # NilErr => call.resp.code = 503
    /\ call.op = "health" => call.resp.code = 200

\* the readiness handler answered 503 to a failed check
C23_Witness ==
    /\ call.op = "ready"
    /\ call.err # NilErr
    /\ call.resp.code = 503

\* C24: the parent and the child of a sandboxed run never block on each
\* other: in no reachable state is the parent blocked on one pipe while the
\* child is blocked on another.
C24_NoPipeDeadlock == ~(ParentBlocked /\ ChildBlocked)

\* C25: in every report stored with the four scores, containment_a_in_b is
\* the size of the intersection divided by the size of submission_a's
\* fingerprint and containment_b_in_a the same divided by the size of
\* submission_b's, whichever of the two was being processed.
C25_ContainmentColumnsMatchPair ==
    pimpl = "comprehensive" =>
        \A r \in reports :
            LET fpA == fps[r.submission_a]
                fpB == fps[r.submission_b]
            IN /\ r.containment_a_in_b = Frac(Cardinality(fpA \cap fpB), Cardinality(fpA))
               /\ r.containment_b_in_a = Frac(Cardinality(fpA \cap fpB), Cardinality(fpB))

\* C26: for every fingerprint length n >= 1 and every table, the band that
\* FindSimilarSubmissions looks up is the band AddSubmission stores, so that
\* an equal fingerprint is found in every table that holds a band of it.
C26_SameBanding ==
    (call.op = "bands" /\ call.add # <<>>) => call.find = call.add

\* C27: the compile step returns true if and only if the compiler child
\* exited normally with status 0; killed by a signal, not started or exited
\* non-zero, it returns false.
C27_CompileTrueIffExitZero ==
    (job.status = "ended" /\ ReachedCompile(cfg.judge, job.env)) =>
        (job.compiled <=> job.env.compile = "exit0")

\* C28: a test-case run whose child exits normally with status 0 is
\* classified by the output comparison only: Accepted or Wrong Answer,
\* whatever the child wrote and whatever the expected output is.
C28_ExitZeroIsComparedOnly ==
    (job.status = "classified" /\ job.child = "exit0") =>
        job.verdict \in {"Accepted", "Wrong Answer"}

JudgeErrorVerdicts ==
    {"Judge Error", "Judge Error: Storage unavailable", "Judge Error: Source not found",
     "Judge Error: Write failure", "Judge Error: Problem not found",
     "Judge Error: No test cases"}

\* C29: when a test-case run cannot be set up (pipe or fork failure), the
\* verdict written for the submission is a Judge Error.
C29_SetupFailureIsJudgeError ==
    (/\ job.status = "ended" /\ job.stage = "loop"
     /\ job.executed # <<>>
     /\ job.env.run[job.executed[Len(job.executed)]] = "setup_fail") =>
        job.verdict \in JudgeErrorVerdicts

\* C30: the fingerprint map and the usage map of the cache have the same key
\* set in every reachable state.
C30_SameKeySets == fc.cache = DOMAIN fc.usage

\* C31: both submission ids of every plagiarism report are ids of rows
\* present in submissions, whatever the interleaving of the intake (its
\* compensation included) with the plagiarism worker
C31_ReportsReferencePresentRows ==
    \A r \in reports :
        r.submission_a \in DOMAIN subs /\ r.submission_b \in DOMAIN subs

\* C32: when the index of a problem comes into being (the first
\* GetOrCreateIndex call for the problem returns), it holds every submission
\* of the problem that is in the store, also when the load query failed
C32_FirstAccessLoadsEveryRow ==
    [][\A p \in Problems :
          (~lshIndex[p].exists /\ lshIndex'[p].exists) =>
             \A i \in DOMAIN subs :
                subs[i].problem = p => lshIndex'[p].entries[i] > 0]_vars

\* C33: FindSimilarSubmissions returns at most limit distinct ids in
\* non-increasing order of votes, and no omitted id has more votes than a
\* returned one
C33_TopByVotes ==
    call.op = "top" =>
       /\ Len(call.result) <= call.limit
       /\ \A j, k \in 1..Len(call.result) : j # k => call.result[j] # call.result[k]
       /\ NonIncreasing(call.votes, call.result)
       /\ \A id \in CandIds \ Range(call.result) :
             \A k \in 1..Len(call.result) : call.votes[id] <= call.votes[call.result[k]]

\* C34: one call of the serializable insert transaction creates at most one
\* row, and exactly one when it returns nil, also when it was retried after
\* a retryable error reported by commit
C34_OneRowPerCall ==
    /\ tx.rows <= 1
    /\ (tx.pc = "returned" /\ tx.ret = NilErr) => tx.rows = 1

\* C35: an error that is not classified retryable ends ExecuteTransaction
\* at once: no backoff and no further attempt follow it and it is the error
\* returned, so a transaction function that fails this way in the first
\* attempt has run exactly once; another attempt is made only after an error
\* classified retryable
C35_NonRetryableFailsAtOnce ==
    /\ (tx.pc = "loop" /\ tx.attempt > 0) => isRetryableError(tx.lastErr)
    /\ (tx.pc = "returned" /\ tx.ret # NilErr /\ ~isRetryableError(tx.ret)) =>
          /\ tx.ret = tx.lastErr
          /\ Tail(tx.ret) \in TxErrors
          /\ tx.waits = tx.attempt
          /\ tx.onces = tx.attempt + 1
          /\ (tx.attempt = 0 /\ tx.ret[1] = "transaction function failed") =>
                (tx.runs = 1 /\ tx.waits = 0)

\* C35 witness: the transaction function failed with a constraint error in
\* the first attempt and the call returned it after one run and no backoff
C35_Witness ==
    /\ tx.pc = "returned"
    /\ tx.ret = <<"transaction function failed", "pq: 23505">>
    /\ tx.runs = 1
    /\ tx.waits = 0

\* C36: a Set that inserts a key into a cache holding maxSize entries
\* removes exactly one entry, one whose last use (by Get or Set) is the
\* oldest of the entries
C36_SetEvictsLeastRecentlyUsed ==
    [][(/\ fc.pc = "missed" /\ fc'.pc = "idle" /\ fc.key \in fc'.cache
        /\ Cardinality(fc.cache) >= maxSize) =>
          \E x \in fc.cache \cap DOMAIN fc.usage :
             /\ fc'.cache = (fc.cache \ {x}) \cup {fc.key}
             /\ \A y \in fc.cache \cap DOMAIN fc.usage : fc.usage[x] <= fc.usage[y]]_vars

\* C37: when a restricted user is configured, the target program is exec'd
\* only with the group and user ids of that user, never with the parent's
C37_ExecOnlyAfterDrop ==
    (call.op = "child" /\ call.user /\ call.status = "exec") =>
        call.cred = [uid |-> "restricted", gid |-> "restricted"]

\* C38: winnowing returns the set of the minima of all windows of w = 10
\* consecutive hashes when the sequence has at least w hashes, the set of all
\* its hashes when it is shorter, and the empty set when it is empty
C38_WinnowIsSetOfWindowMinima ==
    call.op = "winnow" =>
       LET h == call.hashes
           w == windowSize
       IN call.result =
             IF Len(h) >= w
             THEN {MinOf({h[k] : k \in i..(i + w - 1)}) : i \in 1..(Len(h) - w + 1)}
             ELSE Range(h)

\* C38 witness: a sequence longer than one window whose last window alone
\* holds the smallest hash, which is in the result next to a larger minimum
C38_Witness ==
    /\ call.op = "winnow"
    /\ Len(call.hashes) = windowSize + 1
    /\ call.hashes[windowSize + 1] = 1
    /\ \A k \in 1..windowSize : call.hashes[k] = 2
    /\ call.result = {1, 2}
====
